---- MODULE Spec2Model ----
(***************************************************************************)
(* Model of github.com/aoliveti/curling: NewFromRequest converts an        *)
(* *http.Request into a cURL command (command.go, option.go).              *)
(*                                                                         *)
(* A Go string / []byte is a sequence of one-character strings, so that    *)
(* escaping, truncation and joining are computed character by character.   *)
(***************************************************************************)
EXTENDS Integers, Sequences, FiniteSets, TLC

VARIABLES
  pc,        \* where the NewFromRequest call stands: "opts" (applying
             \* opts...), "done" (returned &c, nil), "error" (returned
             \* nil, err), "panic" (the call panicked)
  nopts,     \* number of options applied so far (len(opts) prefix)
  cfg,       \* c.cfg
  req,       \* the *http.Request r as the caller sees it
  stream,    \* the original body stream the caller put in r.Body
  rd,        \* the bufio.Reader b that build wraps around the original body
  model,     \* c.model, the parsedRequest
  tokens,    \* c.tokens
  ret,       \* what NewFromRequest returned: cmd is "c" (a *Command) or
             \* "nil", err the error; cmd is "none" while nothing returned
  rendered,  \* the result of c.String(), once it has been called
  consumed,  \* the bytes a later reader has read from r.Body so far
  readerr,   \* what the later reader's last Read returned as error
  esc,       \* a direct call escape(c.cfg.style, s): the argument s, whether
             \* the call has been made, and what it returned
  calls      \* the NewFromRequest calls that run side by side, each with
             \* its own request, options, Command and position

vars == <<pc, nopts, cfg, req, stream, rd, model, tokens, ret, rendered,
          consumed, readerr, esc, calls>>

-----------------------------------------------------------------------------
(* Bounds of the exploration *)

MaxOpts == 2

\* the longest string handed to escape directly
MaxStrLen == 3

-----------------------------------------------------------------------------
(* Generic string helpers (Go strings package) *)

\* the grave accent character (it cannot be written inside a string literal
\* of this language, so this one character has a spelled-out name)
Backtick == "GRAVE"

Min(a, b) == IF a < b THEN a ELSE b

\* concatenation of the sequences f[lo] .. f[hi], halving the range so that
\* the nesting depth stays logarithmic in the length
RECURSIVE Flat(_, _, _)
Flat(f, lo, hi) ==
  IF lo > hi THEN <<>>
  ELSE IF lo = hi THEN f[lo]
  ELSE LET mid == (lo + hi) \div 2
       IN Flat(f, lo, mid) \o Flat(f, mid + 1, hi)

\* strings.ReplaceAll(s, old, new) for a one-character old
ReplaceAll(s, old, new) ==
  Flat([i \in 1..Len(s) |-> IF s[i] = old THEN new ELSE <<s[i]>>], 1, Len(s))

\* strings.Join(elems, sep)
Join(elems, sep) ==
  Flat([i \in 1..Len(elems) |-> IF i = 1 THEN elems[i] ELSE sep \o elems[i]],
       1, Len(elems))

Digit == <<"0", "1", "2", "3", "4", "5", "6", "7", "8", "9">>

RECURSIVE ItoaNat(_)
ItoaNat(n) ==
  IF n < 10 THEN <<Digit[n + 1]>>
  ELSE ItoaNat(n \div 10) \o <<Digit[(n % 10) + 1]>>

\* strconv.Itoa and fmt's %d
Itoa(n) == IF n < 0 THEN <<"-">> \o ItoaNat(-n) ELSE ItoaNat(n)

IsSpace(c) == c \in {" ", "\t", "\n", "\r"}

RECURSIVE TrimLeft(_)
TrimLeft(s) ==
  IF s # <<>> /\ IsSpace(Head(s)) THEN TrimLeft(Tail(s)) ELSE s

RECURSIVE TrimRight(_)
TrimRight(s) ==
  IF s # <<>> /\ IsSpace(s[Len(s)]) THEN TrimRight(SubSeq(s, 1, Len(s) - 1))
  ELSE s

\* strings.TrimSpace
TrimSpace(s) == TrimRight(TrimLeft(s))

-----------------------------------------------------------------------------
(* option.go: constants, config and the functional options *)

lineContinuationDefault == <<"\\">>
lineContinuationWindows == <<"^">>
lineContinuationPowerShell == <<Backtick>>

defaultMaxBodySize == 1024

\* the zero value of config, then NewFromRequest's default maxBodySize
DefaultConfig ==
  [ style |-> [ useLongForm |-> FALSE, useMultiLine |-> FALSE,
                useDoubleQuotes |-> FALSE, lineContinuation |-> <<>> ],
    flags |-> [ location |-> FALSE, compressed |-> FALSE,
                insecure |-> FALSE, silent |-> FALSE ],
    requestTimeout |-> 0,
    maxBodySize |-> defaultMaxBodySize ]

WithFollowRedirects(c) == [c EXCEPT !.flags.location = TRUE]
WithCompression(c) == [c EXCEPT !.flags.compressed = TRUE]
WithInsecure(c) == [c EXCEPT !.flags.insecure = TRUE]
WithLongForm(c) == [c EXCEPT !.style.useLongForm = TRUE]
WithSilent(c) == [c EXCEPT !.flags.silent = TRUE]
WithMultiLine(c) ==
  [c EXCEPT !.style.useMultiLine = TRUE,
            !.style.lineContinuation = lineContinuationDefault]
\* WithWindowsMultiLine that leaves a multi-line style already chosen alone
WithWindowsMultiLineFirstWins(c) ==
  IF c.style.useMultiLine THEN c
  ELSE [c EXCEPT !.style.useMultiLine = TRUE,
                 !.style.lineContinuation = lineContinuationWindows]

WithWindowsMultiLine(c) ==
  [c EXCEPT !.style.useMultiLine = TRUE,
            !.style.lineContinuation = lineContinuationWindows]
WithPowerShellMultiLine(c) ==
  [c EXCEPT !.style.useMultiLine = TRUE,
            !.style.lineContinuation = lineContinuationPowerShell]
WithDoubleQuotes(c) == [c EXCEPT !.style.useDoubleQuotes = TRUE]
\* WithRequestTimeout that stores the seconds as given
WithRequestTimeoutUnclamped(c, seconds) == [c EXCEPT !.requestTimeout = seconds]

WithRequestTimeout(c, seconds) ==
  [c EXCEPT !.requestTimeout = IF seconds < 0 THEN 0 ELSE seconds]
\* WithMaxBodySize that stores the bytes as given
WithMaxBodySizeAsGiven(c, bytes) == [c EXCEPT !.maxBodySize = bytes]

WithMaxBodySize(c, bytes) ==
  [c EXCEPT !.maxBodySize = IF bytes <= 0 THEN defaultMaxBodySize ELSE bytes]

-----------------------------------------------------------------------------
(* command.go: optionForm and escape *)

\* optionForm with the two spellings taken the wrong way round
optionFormSwapped(style, short, long) ==
  IF style.useLongForm THEN short ELSE long

optionForm(style, short, long) == IF style.useLongForm THEN long ELSE short

\* escape whose single-quote mode puts a backslash before each single quote
escapeBackslashQuote(style, s) ==
  IF style.useDoubleQuotes
  THEN LET v1 == ReplaceAll(s, "\"", <<"\\", "\"">>)
           v2 == ReplaceAll(v1, Backtick, <<"\\", Backtick>>)
           v3 == ReplaceAll(v2, "$", <<"\\", "$">>)
       IN <<"\"">> \o v3 \o <<"\"">>
  ELSE LET v == ReplaceAll(s, "'", <<"\\", "'">>)
       IN <<"'">> \o v \o <<"'">>

\* escape whose double-quote mode leaves the backtick alone
escapeNoBacktick(style, s) ==
  IF style.useDoubleQuotes
  THEN LET v1 == ReplaceAll(s, "\"", <<"\\", "\"">>)
           v3 == ReplaceAll(v1, "$", <<"\\", "$">>)
       IN <<"\"">> \o v3 \o <<"\"">>
  ELSE LET v == ReplaceAll(s, "'", <<"'", "\\", "'", "'">>)
       IN <<"'">> \o v \o <<"'">>

escape(style, s) ==
  IF style.useDoubleQuotes
  THEN LET v1 == ReplaceAll(s, "\"", <<"\\", "\"">>)
           v2 == ReplaceAll(v1, Backtick, <<"\\", Backtick>>)
           v3 == ReplaceAll(v2, "$", <<"\\", "$">>)
       IN <<"\"">> \o v3 \o <<"\"">>
  ELSE LET v == ReplaceAll(s, "'", <<"'", "\\", "'", "'">>)
       IN <<"'">> \o v \o <<"'">>

-----------------------------------------------------------------------------
(* Character codes: the printable ASCII characters, code 32 first *)

Ascii == <<
    " ", "!", "\"", "#", "$", "%", "&", "'", "(", ")", "*", "+",
    ",", "-", ".", "/", "0", "1", "2", "3", "4", "5", "6", "7",
    "8", "9", ":", ";", "<", "=", ">", "?", "@", "A", "B", "C",
    "D", "E", "F", "G", "H", "I", "J", "K", "L", "M", "N", "O",
    "P", "Q", "R", "S", "T", "U", "V", "W", "X", "Y", "Z", "[",
    "\\", "]", "^", "_", Backtick, "a", "b", "c", "d", "e", "f", "g",
    "h", "i", "j", "k", "l", "m", "n", "o", "p", "q", "r", "s",
    "t", "u", "v", "w", "x", "y", "z", "{", "|", "}", "~" >>

\* the byte value of each character of the table
OrdOf ==
  [ch \in {Ascii[i] : i \in 1..Len(Ascii)} |->
     (CHOOSE i \in 1..Len(Ascii) : Ascii[i] = ch) + 31]

\* the byte value of a character (0 for a character outside the table)
Ord(ch) == IF ch \in DOMAIN OrdOf THEN OrdOf[ch] ELSE 0

\* the character of a byte value; bytes outside printable ASCII have no
\* literal here and are all shown as one placeholder character
Chr(b) == IF b >= 32 /\ b <= 126 THEN Ascii[b - 31] ELSE "NONPRINT"

UpperChars == {ch \in DOMAIN OrdOf : OrdOf[ch] >= 65 /\ OrdOf[ch] <= 90}
LowerChars == {ch \in DOMAIN OrdOf : OrdOf[ch] >= 97 /\ OrdOf[ch] <= 122}
DigitChars == {ch \in DOMAIN OrdOf : OrdOf[ch] >= 48 /\ OrdOf[ch] <= 57}

IsUpper(ch) == ch \in UpperChars
IsLower(ch) == ch \in LowerChars
ToUpper(ch) == IF ch \in LowerChars THEN Ascii[OrdOf[ch] - 63] ELSE ch
ToLower(ch) == IF ch \in UpperChars THEN Ascii[OrdOf[ch] + 1] ELSE ch

\* strings.Cut(s, sep) for a one-character sep
Cut(s, sep) ==
  IF \E i \in 1..Len(s) : s[i] = sep
  THEN LET i == CHOOSE k \in 1..Len(s) :
                  s[k] = sep /\ \A j \in 1..(k - 1) : s[j] # sep
       IN [before |-> SubSeq(s, 1, i - 1), after |-> SubSeq(s, i + 1, Len(s)),
           found |-> TRUE]
  ELSE [before |-> s, after |-> <<>>, found |-> FALSE]

-----------------------------------------------------------------------------
(* The original body stream (an io.ReadCloser supplied by the caller).     *)
(* data: the bytes it holds; pos: how many were handed out; errAt: -1, or  *)
(* the offset at which every Read fails with a hard I/O error; chunk: the  *)
(* most bytes one Read hands out (0: as many as asked for).                *)

NoStream == [data |-> <<>>, pos |-> 0, errAt |-> -1, chunk |-> 0]

StreamEnd(s) ==
  IF s.errAt >= 0 THEN Min(s.errAt, Len(s.data)) ELSE Len(s.data)

\* one Read(p) with len(p) = n > 0: the bytes, the error and the stream after
StreamRead(s, n) ==
  IF s.pos >= StreamEnd(s)
  THEN [bytes |-> <<>>, err |-> IF s.errAt >= 0 THEN "io" ELSE "EOF", s |-> s]
  ELSE CHOOSE res \in
         { [bytes |-> SubSeq(s.data, s.pos + 1, s.pos + k), err |-> "nil",
            s |-> [s EXCEPT !.pos = s.pos + k]]
           : k \in {Min(IF s.chunk > 0 THEN Min(n, s.chunk) ELSE n,
                        StreamEnd(s) - s.pos)} } : TRUE

-----------------------------------------------------------------------------
(* bufio.Reader as created by bufio.NewReader(r.Body) in build.            *)
(* buf is the unread part b.buf[b.r:b.w] of the internal buffer and err is *)
(* b.err; the buffer holds at most defaultBufSize bytes.                   *)

defaultBufSize == 4096

NewReader == [buf |-> <<>>, err |-> "nil"]

\* (*Reader).fill: one Read of the underlying stream into the free space
\* (the stream never returns 0 bytes with a nil error, so the retry loop of
\* fill runs once)
fill(b, s) ==
  CHOOSE res \in
    { [b |-> [buf |-> b.buf \o got.bytes, err |-> got.err], s |-> got.s]
      : got \in {StreamRead(s, defaultBufSize - Len(b.buf))} } : TRUE

\* the loop at the head of (*Reader).Peek, on st = [b, s]: the reader and
\* the stream under it
RECURSIVE PeekFill(_, _)
PeekFill(st, n) ==
  IF Len(st.b.buf) < n /\ Len(st.b.buf) < defaultBufSize /\ st.b.err = "nil"
  THEN PeekFill(fill(st.b, st.s), n)
  ELSE st

\* (*Reader).Peek(n): the returned slice, the returned error, and the reader
\* and stream after the call
Peek(b, s, n) ==
  IF n < 0
  THEN [bytes |-> <<>>, err |-> "ErrNegativeCount", b |-> b, s |-> s]
  ELSE CHOOSE res \in
    { IF n > defaultBufSize
      THEN [bytes |-> st.b.buf, err |-> "ErrBufferFull", b |-> st.b, s |-> st.s]
      ELSE IF Len(st.b.buf) < n
      THEN \* readErr() returns b.err and clears it
           [bytes |-> st.b.buf,
            err |-> IF st.b.err = "nil" THEN "ErrBufferFull" ELSE st.b.err,
            b |-> [st.b EXCEPT !.err = "nil"], s |-> st.s]
      ELSE [bytes |-> SubSeq(st.b.buf, 1, n), err |-> "nil",
            b |-> st.b, s |-> st.s]
      : st \in {PeekFill([b |-> b, s |-> s], n)} } : TRUE

\* (*Reader).Read(p) with len(p) = n > 0
BufRead(b, s, n) ==
  IF b.buf = <<>>
  THEN IF b.err # "nil"
       THEN [bytes |-> <<>>, err |-> b.err, b |-> [b EXCEPT !.err = "nil"],
             s |-> s]
       ELSE IF n >= defaultBufSize
       THEN \* large read, empty buffer: read directly into p
            LET got == StreamRead(s, n)
            IN [bytes |-> got.bytes, err |-> got.err, b |-> b, s |-> got.s]
       ELSE LET got == StreamRead(s, defaultBufSize)
                k == Min(n, Len(got.bytes))
            IN IF got.bytes = <<>>
               THEN [bytes |-> <<>>, err |-> got.err, b |-> b, s |-> got.s]
               ELSE [bytes |-> SubSeq(got.bytes, 1, k), err |-> "nil",
                     b |-> [buf |-> SubSeq(got.bytes, k + 1, Len(got.bytes)),
                            err |-> got.err],
                     s |-> got.s]
  ELSE LET k == Min(n, Len(b.buf))
       IN [bytes |-> SubSeq(b.buf, 1, k), err |-> "nil",
           b |-> [b EXCEPT !.buf = SubSeq(b.buf, k + 1, Len(b.buf))], s |-> s]

-----------------------------------------------------------------------------
(* net/http and its helpers, as far as build and buildHeaders use them *)

MethodGet == <<"G", "E", "T">>
MethodPost == <<"P", "O", "S", "T">>

\* textproto's validHeaderFieldByte: the RFC 7230 token characters
TokenChars ==
  UpperChars \cup LowerChars \cup DigitChars
  \cup {"!", "#", "$", "%", "&", "'", "*", "+", "-", ".", "^", "_",
        Backtick, "|", "~"}

IsTokenChar(ch) == ch \in TokenChars

\* CanonicalHeaderKey that hands the key back as it is stored
CanonicalHeaderKeyAsStored(k) == k

\* http.CanonicalHeaderKey: a key holding a non-token character is returned
\* unchanged; otherwise the first letter and every letter after a hyphen are
\* upper-cased and the others lower-cased
CanonicalHeaderKey(k) ==
  IF \A i \in 1..Len(k) : IsTokenChar(k[i])
  THEN [i \in 1..Len(k) |->
          IF i = 1 \/ k[i - 1] = "-" THEN ToUpper(k[i]) ELSE ToLower(k[i])]
  ELSE k

\* Header.Get(key): the first value stored under the canonical form of key
HeaderGet(h, key) ==
  LET ck == CanonicalHeaderKey(key)
  IN IF ck \in DOMAIN h /\ Len(h[ck]) > 0 THEN h[ck][1] ELSE <<>>

B64 == <<
    "A", "B", "C", "D", "E", "F", "G", "H", "I", "J", "K", "L", "M", "N", "O", "P",
    "Q", "R", "S", "T", "U", "V", "W", "X", "Y", "Z", "a", "b", "c", "d", "e", "f",
    "g", "h", "i", "j", "k", "l", "m", "n", "o", "p", "q", "r", "s", "t", "u", "v",
    "w", "x", "y", "z", "0", "1", "2", "3", "4", "5", "6", "7", "8", "9", "+", "/" >>

B64Of == [ch \in {B64[i] : i \in 1..64} |-> (CHOOSE i \in 1..64 : B64[i] = ch) - 1]

B64Val(ch) == B64Of[ch]

\* base64.StdEncoding.DecodeString on a string without line breaks:
\* quanta of four characters, padding only at the end of the last quantum
RECURSIVE B64Bytes(_)
B64Bytes(s) ==
  IF s = <<>> THEN <<>>
  ELSE LET v1 == B64Val(s[1])
           v2 == B64Val(s[2])
           b1 == Chr(v1 * 4 + (v2 \div 16))
       IN IF s[3] = "=" THEN <<b1>>
          ELSE LET v3 == B64Val(s[3])
                   b2 == Chr((v2 % 16) * 16 + (v3 \div 4))
               IN IF s[4] = "=" THEN <<b1, b2>>
                  ELSE <<b1, b2, Chr((v3 % 4) * 64 + B64Val(s[4]))>>
                       \o B64Bytes(SubSeq(s, 5, Len(s)))

B64Valid(s) ==
  LET n == Len(s)
      IsB64(ch) == ch \in DOMAIN B64Of
  IN /\ n % 4 = 0
     /\ \A i \in 1..n :
          \/ IsB64(s[i])
          \/ s[i] = "=" /\ i = n
          \/ s[i] = "=" /\ i = n - 1 /\ s[n] = "="

\* (*Request).BasicAuth with parseBasicAuth
BasicAuth(h) ==
  LET auth == HeaderGet(h, <<"A", "u", "t", "h", "o", "r", "i", "z", "a", "t", "i", "o", "n">>)
      prefix == <<"b", "a", "s", "i", "c", " ">>
      none == [user |-> <<>>, pass |-> <<>>, ok |-> FALSE]
  IN IF auth = <<>> THEN none
     ELSE IF Len(auth) < Len(prefix)
             \/ [i \in 1..Len(prefix) |-> ToLower(auth[i])] # prefix
     THEN none
     ELSE LET enc == SubSeq(auth, Len(prefix) + 1, Len(auth))
          IN IF ~B64Valid(enc) THEN none
             ELSE LET cs == Cut(B64Bytes(enc), ":")
                  IN IF ~cs.found THEN none
                     ELSE [user |-> cs.before, pass |-> cs.after, ok |-> TRUE]

\* textproto.TrimString
TrimString(s) == TrimSpace(s)

\* http's validCookieValueByte: 0x20 <= b < 0x7f without the double quote,
\* the semicolon and the backslash
ValidCookieValueByte(ch) ==
  ch \in DOMAIN OrdOf /\ ch \notin {"\"", ";", "\\"}

\* http's parseCookieValue(raw, true)
parseCookieValue(raw) ==
  LET quoted == Len(raw) > 1 /\ raw[1] = "\"" /\ raw[Len(raw)] = "\""
      val == IF quoted THEN SubSeq(raw, 2, Len(raw) - 1) ELSE raw
  IN IF \A i \in 1..Len(val) : ValidCookieValueByte(val[i])
     THEN [val |-> val, quoted |-> quoted, ok |-> TRUE]
     ELSE [val |-> <<>>, quoted |-> FALSE, ok |-> FALSE]

\* the inner loop of http's readCookies over one Cookie header line
RECURSIVE readCookieLine(_)
readCookieLine(line) ==
  IF line = <<>> THEN <<>>
  ELSE LET ct == Cut(line, ";")
           part == TrimString(ct.before)
           nv == Cut(part, "=")
           name == TrimString(nv.before)
           pv == parseCookieValue(nv.after)
           rest == readCookieLine(ct.after)
       IN IF part = <<>> THEN rest
          ELSE IF name = <<>> \/ \E i \in 1..Len(name) : ~IsTokenChar(name[i])
          THEN rest
          ELSE IF ~pv.ok THEN rest
          ELSE <<[Name |-> name, Value |-> pv.val, Quoted |-> pv.quoted]>>
               \o rest

\* (*Request).Cookies: readCookies(r.Header, "") reads the lines stored under
\* the key "Cookie" itself
Cookies(h) ==
  LET key == <<"C", "o", "o", "k", "i", "e">>
  IN IF key \notin DOMAIN h THEN <<>>
     ELSE Flat([i \in 1..Len(h[key]) |-> readCookieLine(TrimString(h[key][i]))],
               1, Len(h[key]))

\* (*Cookie).String for a cookie that has a name and a value only
CookieString(ck) ==
  LET v == ck.Value
      quote == \/ ck.Quoted
               \/ \E i \in 1..Len(v) : v[i] \in {" ", ","}
  IN ck.Name \o <<"=">>
     \o (IF v # <<>> /\ quote THEN <<"\"">> \o v \o <<"\"">> ELSE v)

-----------------------------------------------------------------------------
(* command.go: parsedRequest and build *)

\* a nil *bytes.Buffer
NilBuffer == [isNil |-> TRUE, bytes |-> <<>>]

\* the zero value of parsedRequest
ZeroModel ==
  [ hasAuth |-> FALSE, user |-> <<>>, pass |-> <<>>,
    hasData |-> FALSE, body |-> NilBuffer,
    hasCookies |-> FALSE, cookies |-> <<>>,
    bodyTruncated |-> FALSE, contentLength |-> 0 ]

\* build up to the body: Basic auth, Content-Length and the cookies
buildHead(r) ==
  CHOOSE m0 \in
    { [ZeroModel EXCEPT
         !.user = auth.user, !.pass = auth.pass, !.hasAuth = auth.ok,
         !.contentLength = r.ContentLength,
         !.hasCookies = Len(cookies) > 0,
         !.cookies =
           IF Len(cookies) > 0
           THEN Join([i \in 1..Len(cookies) |-> CookieString(cookies[i])],
                     <<";", " ">>)
           ELSE <<>>]
      : auth \in {BasicAuth(r.Header)}, cookies \in {Cookies(r.Header)} } : TRUE

\* restoreBody with r.Body rebuilt from the peeked slice alone: the bytes the
\* bufio.Reader buffered or left in the stream beyond it are lost
restoreBodyFromPeeked(pk) == [buf |-> pk.bytes, err |-> "EOF"]

\* "r.Body = io.NopCloser(b)": the reader r.Body is afterwards, given what
\* Peek left (pk.b is the bufio.Reader, holding the peeked bytes unread)
restoreBody(pk) == pk.b

\* build from "peekSize := cfg.maxBodySize" on, for a request with a body;
\* m0 is the parsedRequest so far
buildBody(r, s, c, m0) ==
  CHOOSE res \in
    { IF pk.err \notin {"nil", "EOF", "ErrBufferFull"}
      THEN [status |-> "error", err |-> pk.err, m |-> m0, body |-> r.Body,
            b |-> pk.b, s |-> pk.s]
      ELSE IF pk.err = "EOF"
      THEN [status |-> "ok", err |-> "nil",
            m |-> [m0 EXCEPT !.body = [isNil |-> FALSE, bytes |-> pk.bytes],
                             !.hasData = TRUE],
            body |-> "restored", b |-> restoreBody(pk), s |-> pk.s]
      ELSE IF peekSize > Len(pk.bytes)
      THEN \* m.body.Truncate(peekSize) panics: truncation out of range
           [status |-> "panic", err |-> "nil",
            m |-> [m0 EXCEPT !.body = [isNil |-> FALSE, bytes |-> pk.bytes],
                             !.hasData = TRUE, !.bodyTruncated = TRUE],
            body |-> r.Body, b |-> pk.b, s |-> pk.s]
      ELSE [status |-> "ok", err |-> "nil",
            m |-> [m0 EXCEPT
                     !.body = [isNil |-> FALSE,
                               bytes |-> SubSeq(pk.bytes, 1, peekSize)],
                     !.hasData = TRUE, !.bodyTruncated = TRUE],
            body |-> "restored", b |-> restoreBody(pk), s |-> pk.s]
      : peekSize \in {IF c.maxBodySize <= 0 THEN defaultMaxBodySize
                      ELSE c.maxBodySize},
        pk \in {Peek(NewReader, s,
                     (IF c.maxBodySize <= 0 THEN defaultMaxBodySize
                      ELSE c.maxBodySize) + 1)} } : TRUE

\* (*parsedRequest).build(r, cfg) on a request r whose original body stream
\* is s. status is "ok" (returned nil), "error" (returned an error) or
\* "panic" (bytes.Buffer.Truncate panicked: truncation out of range); m is
\* the parsedRequest, body what r.Body is afterwards, b the bufio.Reader and
\* s the stream afterwards.
\* build returning early for a nil body only
buildNilBodyOnly(r, s, c) ==
  CHOOSE res \in
    { IF r.Body = "nil"
      THEN [status |-> "ok", err |-> "nil", m |-> m0, body |-> r.Body,
            b |-> NewReader, s |-> s]
      ELSE buildBody(r, s, c, m0)
      : m0 \in {buildHead(r)} } : TRUE

build(r, s, c) ==
  CHOOSE res \in
    { IF r.Body \in {"nil", "NoBody"}
      THEN [status |-> "ok", err |-> "nil", m |-> m0, body |-> r.Body,
            b |-> NewReader, s |-> s]
      ELSE buildBody(r, s, c, m0)
      : m0 \in {buildHead(r)} } : TRUE

-----------------------------------------------------------------------------
(* command.go: the builders run by construct *)

buildOptions(args, c) ==
  LET a1 == IF c.flags.silent
            THEN Append(args, optionForm(c.style, <<"-", "s">>, <<"-", "-", "s", "i", "l", "e", "n", "t">>))
            ELSE args
      a2 == IF c.requestTimeout > 0
            THEN a1 \o <<optionForm(c.style, <<"-", "m">>, <<"-", "-", "m", "a", "x", "-", "t", "i", "m", "e">>),
                         Itoa(c.requestTimeout)>>
            ELSE a1
      a3 == IF c.flags.insecure
            THEN Append(a2, optionForm(c.style, <<"-", "k">>, <<"-", "-", "i", "n", "s", "e", "c", "u", "r", "e">>))
            ELSE a2
      a4 == IF c.flags.compressed THEN Append(a3, <<"-", "-", "c", "o", "m", "p", "r", "e", "s", "s", "e", "d">>) ELSE a3
  IN IF c.flags.location
     THEN Append(a4, optionForm(c.style, <<"-", "L">>, <<"-", "-", "l", "o", "c", "a", "t", "i", "o", "n">>))
     ELSE a4

\* buildAuth: the arguments it returns
buildAuth(args, c, m) ==
  IF ~m.hasAuth THEN args
  ELSE args \o <<optionForm(c.style, <<"-", "u">>, <<"-", "-", "u", "s", "e", "r">>),
                 escape(c.style, m.user \o <<":">> \o m.pass)>>

\* buildAuth that does not mark the Authorization header as handled
buildAuthNotHandled(m, handledHeaders) == handledHeaders

\* buildAuth: what it leaves in handledHeaders
buildAuthHandled(m, handledHeaders) ==
  IF ~m.hasAuth THEN handledHeaders
  ELSE handledHeaders \cup {<<"A", "u", "t", "h", "o", "r", "i", "z", "a", "t", "i", "o", "n">>}

\* buildCookies: the arguments it returns
buildCookies(args, c, m) ==
  IF ~m.hasCookies THEN args
  ELSE args \o <<optionForm(c.style, <<"-", "b">>, <<"-", "-", "c", "o", "o", "k", "i", "e">>),
                 escape(c.style, m.cookies)>>

\* buildCookies marking the Cookie header as handled whether or not the
\* request has cookies
buildCookiesAlwaysHandled(m, handledHeaders) ==
  handledHeaders \cup {<<"C", "o", "o", "k", "i", "e">>}

\* buildCookies: what it leaves in handledHeaders
buildCookiesHandled(m, handledHeaders) ==
  IF ~m.hasCookies THEN handledHeaders
  ELSE handledHeaders \cup {<<"C", "o", "o", "k", "i", "e">>}

\* buildData that also skips a body of no bytes
buildDataSkippingEmpty(args, c, m) ==
  IF m.body.isNil \/ m.body.bytes = <<>> THEN args
  ELSE LET body ==
             IF m.bodyTruncated
             THEN IF m.contentLength > 0
                  THEN m.body.bytes \o <<".", ".", ".", " ", "(", "t", "r", "u", "n", "c", "a", "t", "e", "d", " ", "b", "o", "d", "y", ",", " ", "t", "o", "t", "a", "l", " ">>
                       \o Itoa(m.contentLength) \o <<" ", "b", "y", "t", "e", "s", ")">>
                  ELSE m.body.bytes \o <<".", ".", ".", " ", "(", "t", "r", "u", "n", "c", "a", "t", "e", "d", " ", "b", "o", "d", "y", ")">>
             ELSE m.body.bytes
       IN args \o <<<<"-", "-", "d", "a", "t", "a", "-", "r", "a", "w">>, escape(c.style, body)>>

buildData(args, c, m) ==
  IF m.body.isNil THEN args
  ELSE LET body ==
             IF m.bodyTruncated
             THEN IF m.contentLength > 0
                  THEN m.body.bytes \o <<".", ".", ".", " ", "(", "t", "r", "u", "n", "c", "a", "t", "e", "d", " ", "b", "o", "d", "y", ",", " ", "t", "o", "t", "a", "l", " ">>
                       \o Itoa(m.contentLength) \o <<" ", "b", "y", "t", "e", "s", ")">>
                  ELSE m.body.bytes \o <<".", ".", ".", " ", "(", "t", "r", "u", "n", "c", "a", "t", "e", "d", " ", "b", "o", "d", "y", ")">>
             ELSE m.body.bytes
       IN args \o <<<<"-", "-", "d", "a", "t", "a", "-", "r", "a", "w">>, escape(c.style, body)>>

\* buildMethod that takes every POST for curl's default, with or without data
buildMethodAnyPost(args, c, m, r) ==
  LET method == IF r.Method = <<>>
                THEN IF m.hasData THEN MethodPost ELSE MethodGet
                ELSE r.Method
      isGetDefault == method = MethodGet /\ ~m.hasData
      isPostDefault == method = MethodPost
  IN IF ~isGetDefault /\ ~isPostDefault
     THEN args \o <<optionForm(c.style, <<"-", "X">>, <<"-", "-", "r", "e", "q", "u", "e", "s", "t">>),
                    escape(c.style, method)>>
     ELSE args

buildMethod(args, c, m, r) ==
  LET method == IF r.Method = <<>>
                THEN IF m.hasData THEN MethodPost ELSE MethodGet
                ELSE r.Method
      isGetDefault == method = MethodGet /\ ~m.hasData
      isPostDefault == method = MethodPost /\ m.hasData
  IN IF ~isGetDefault /\ ~isPostDefault
     THEN args \o <<optionForm(c.style, <<"-", "X">>, <<"-", "-", "r", "e", "q", "u", "e", "s", "t">>),
                    escape(c.style, method)>>
     ELSE args

\* r.URL is non-nil here; URL.str is the text (*url.URL).String() gives
buildURL(args, c, r) == Append(args, escape(c.style, r.URL.str))

-----------------------------------------------------------------------------
(* command.go: buildHeaders, assembleTokens, construct, String *)

\* Go's string comparison a < b: bytewise lexicographic
RECURSIVE StrLess(_, _)
StrLess(a, b) ==
  IF b = <<>> THEN FALSE
  ELSE IF a = <<>> THEN TRUE
  ELSE IF Head(a) # Head(b) THEN Ord(Head(a)) < Ord(Head(b))
  ELSE StrLess(Tail(a), Tail(b))

RECURSIVE SortInsert(_, _)
SortInsert(sorted, x) ==
  IF sorted = <<>> THEN <<x>>
  ELSE IF StrLess(x, Head(sorted)) THEN <<x>> \o sorted
  ELSE <<Head(sorted)>> \o SortInsert(Tail(sorted), x)

\* slices.Sort left out: the strings stay in the order they came in
SortStringsLeftOut(ss) == ss

\* slices.Sort on a []string
RECURSIVE SortStrings(_)
SortStrings(ss) ==
  IF ss = <<>> THEN <<>>
  ELSE SortInsert(SortStrings(SubSeq(ss, 1, Len(ss) - 1)), ss[Len(ss)])

\* the range loop of buildHeaders over r.Header, visiting the keys in the
\* order given (Go leaves the iteration order of a map unspecified); st is
\* [host, headers]
RECURSIVE headerLoop(_, _, _, _)
headerLoop(h, handledHeaders, order, st) ==
  IF order = <<>> THEN st
  ELSE LET key == Head(order)
           canonicalKey == CanonicalHeaderKey(key)
           next ==
             IF canonicalKey \in handledHeaders THEN st
             ELSE IF canonicalKey = <<"H", "o", "s", "t">>
             THEN IF st.host = <<>>
                  THEN [st EXCEPT !.host = Join(h[key], <<",", " ">>)]
                  ELSE st
             ELSE [st EXCEPT !.headers =
                     Append(@, canonicalKey \o <<":", " ">> \o Join(h[key], <<",", " ">>))]
       IN headerLoop(h, handledHeaders, Tail(order), next)

\* buildHeaders in which a Host header wins over r.Host
buildHeadersHeaderWins(c, r, handledHeaders, order) ==
  IF DOMAIN r.Header = {} /\ r.Host = <<>> THEN <<>>
  ELSE LET st0 == headerLoop(r.Header, handledHeaders, order,
                             [host |-> <<>>, headers |-> <<>>])
           st == IF st0.host = <<>> THEN [st0 EXCEPT !.host = r.Host] ELSE st0
           headers == SortStrings(
                        IF st.host # <<>>
                        THEN Append(st.headers, <<"H", "o", "s", "t", ":", " ">> \o st.host)
                        ELSE st.headers)
       IN [i \in 1..Len(headers) |->
             Join(<<optionForm(c.style, <<"-", "H">>, <<"-", "-", "h", "e", "a", "d", "e", "r">>),
                    escape(c.style, headers[i])>>, <<" ">>)]

buildHeaders(c, r, handledHeaders, order) ==
  IF DOMAIN r.Header = {} /\ r.Host = <<>> THEN <<>>
  ELSE LET st == headerLoop(r.Header, handledHeaders, order,
                            [host |-> r.Host, headers |-> <<>>])
           headers == SortStrings(
                        IF st.host # <<>>
                        THEN Append(st.headers, <<"H", "o", "s", "t", ":", " ">> \o st.host)
                        ELSE st.headers)
       IN [i \in 1..Len(headers) |->
             Join(<<optionForm(c.style, <<"-", "H">>, <<"-", "-", "h", "e", "a", "d", "e", "r">>),
                    escape(c.style, headers[i])>>, <<" ">>)]

assembleTokens(mainArgs, headerArgs) ==
  <<Join(mainArgs, <<" ">>)>> \o headerArgs

\* construct with the method stage run before the data stage
constructMethodBeforeData(c, m, r, order) ==
  LET p0 == <<<<"c", "u", "r", "l">>>>
      p1 == buildOptions(p0, c)
      p2 == buildAuth(p1, c, m)
      h2 == buildAuthHandled(m, {})
      p3 == buildCookies(p2, c, m)
      h3 == buildCookiesHandled(m, h2)
      p4 == buildMethod(p3, c, m, r)
      p5 == buildData(p4, c, m)
      p6 == buildURL(p5, c, r)
      headerParts == buildHeaders(c, r, h3, order)
  IN assembleTokens(p6, headerParts)

\* (*Command).construct: the value it leaves in c.tokens; order is the order
\* in which the range loop of buildHeaders visits the keys of r.Header
construct(c, m, r, order) ==
  LET p0 == <<<<"c", "u", "r", "l">>>>
      p1 == buildOptions(p0, c)
      p2 == buildAuth(p1, c, m)
      h2 == buildAuthHandled(m, {})
      p3 == buildCookies(p2, c, m)
      h3 == buildCookiesHandled(m, h2)
      p4 == buildData(p3, c, m)
      p5 == buildMethod(p4, c, m, r)
      p6 == buildURL(p5, c, r)
      headerParts == buildHeaders(c, r, h3, order)
  IN assembleTokens(p6, headerParts)

\* (*Command).String
String(toks, c) ==
  LET separator == IF c.style.useMultiLine
                   THEN <<" ">> \o c.style.lineContinuation \o <<"\n">>
                   ELSE <<" ">>
  IN TrimSpace(Join(toks, separator))

\* every order in which a range loop can visit the keys of a map
Orders(keys) ==
  {o \in [1..Cardinality(keys) -> keys] :
     \A i, j \in 1..Cardinality(keys) : i # j => o[i] # o[j]}

-----------------------------------------------------------------------------
(* The requests and option arguments explored *)

EmptyHeader == [k \in {} |-> <<>>]

TestURL == [isNil |-> FALSE, str |-> <<"h", "t", "t", "p", "s", ":", "/", "/", "l", "o", "c", "a", "l", "h", "o", "s", "t", "/", "t", "e", "s", "t">>]
NilURL == [isNil |-> TRUE, str |-> <<>>]

Request(method, url, host, header, contentLength, body) ==
  [Method |-> method, URL |-> url, Host |-> host, Header |-> header,
   ContentLength |-> contentLength, Body |-> body]

Stream(data, errAt, chunk) ==
  [data |-> data, pos |-> 0, errAt |-> errAt, chunk |-> chunk]

Methods == {<<>>, MethodGet, MethodPost, <<"P", "U", "T">>}

SmallBodies ==
  { <<>>, <<"k", "e", "y", "=", "v", "a", "l", "u", "e">>, <<"i", "t", "'", "s", " ", "\"", "$", "x", Backtick>>, <<"1", "2", "3", "4", "5", "6", "7", "8", "9", "0">>,
    <<"a", "b", "c", "d", "e", "f", "g", "h", "i", "j", "k", "l", "m", "n">> }

\* a body of n bytes whose neighbouring bytes differ
Pattern == <<"a", "b", "c", "d", "e", "f", "g">>
LongBody(n) == [i \in 1..n |-> Pattern[((i - 1) % Len(Pattern)) + 1]]

AuthHeader == <<"A", "u", "t", "h", "o", "r", "i", "z", "a", "t", "i", "o", "n">> :> <<<<"B", "a", "s", "i", "c", " ", "d", "X", "N", "l", "c", "j", "p", "w", "Y", "X", "N", "z">>>>
CookieHeader == <<"C", "o", "o", "k", "i", "e">> :> <<<<"a", "=", "1", ";", " ", "b", "=", "2">>>>
PlainHeader == <<"x", "-", "r", "e", "q", "u", "e", "s", "t", "-", "i", "d">> :> <<<<"1", "2", "3", "4", "5">>, <<"i", "t", "'", "s">>>>
HostHeader == <<"H", "o", "s", "t">> :> <<<<"h", ".", "e", "x", "a", "m", "p", "l", "e">>, <<"g", ".", "e", "x", "a", "m", "p", "l", "e">>>>
\* header keys stored as the caller wrote them, not in canonical form
LowerAuthHeader == <<"a", "u", "t", "h", "o", "r", "i", "z", "a", "t", "i", "o", "n">> :> <<<<"B", "a", "s", "i", "c", " ", "d", "X", "N", "l", "c", "j", "p", "w", "Y", "X", "N", "z">>>>
UpperAuthHeader == <<"A", "U", "T", "H", "O", "R", "I", "Z", "A", "T", "I", "O", "N">> :> <<<<"B", "a", "s", "i", "c", " ", "d", "X", "N", "l", "c", "j", "p", "w", "Y", "X", "N", "z">>>>
LowerHostHeader == <<"h", "o", "s", "t">> :> <<<<"o", "t", "h", "e", "r", ".", "e", "x", "a", "m", "p", "l", "e">>>>
EmptyHostHeader == <<"H", "o", "s", "t">> :> <<<<>>>>
AcceptHeader == <<"a", "c", "c", "e", "p", "t">> :> <<<<"*", "/", "*">>>>
\* a Cookie header of two lines, one value with a space in it
CookieLinesHeader == <<"C", "o", "o", "k", "i", "e">> :> <<<<"c", "1", "=", "v", "1">>, <<"c", "2", "=", "v", "2", ";", " ", "c", "3", "=", "v", " ", "3">>>>

HeaderSets ==
  { AuthHeader, CookieHeader, PlainHeader, HostHeader,
    AuthHeader @@ CookieHeader @@ PlainHeader,
    PlainHeader @@ HostHeader,
    LowerAuthHeader, UpperAuthHeader, EmptyHostHeader, CookieLinesHeader,
    HostHeader @@ LowerHostHeader,
    PlainHeader @@ AcceptHeader @@ HostHeader }

\* requests with and without a body, every method, no header
BodyRequests ==
  { [r |-> Request(m, TestURL, <<>>, EmptyHeader, cl, "orig"),
     s |-> Stream(d, -1, 0)] :
       m \in Methods, d \in SmallBodies, cl \in {-1, 0, 14} }
  \cup
  { [r |-> Request(m, TestURL, <<>>, EmptyHeader, 0, b), s |-> NoStream] :
       m \in Methods, b \in {"nil", "NoBody"} }

\* requests without a URL, and bodies whose stream fails or hands out its
\* bytes in pieces
FailingRequests ==
  { [r |-> Request(MethodPost, NilURL, <<>>, h, 9, "orig"),
     s |-> Stream(<<"k", "e", "y", "=", "v", "a", "l", "u", "e">>, -1, 0)] : h \in {EmptyHeader, PlainHeader} }
  \cup
  { [r |-> Request(MethodGet, NilURL, <<>>, EmptyHeader, 0, "nil"),
     s |-> NoStream] }
  \cup
  { [r |-> Request(MethodPost, TestURL, <<>>, EmptyHeader, 14, "orig"),
     s |-> Stream(<<"a", "b", "c", "d", "e", "f", "g", "h", "i", "j", "k", "l", "m", "n">>, e, ch)] :
       e \in {-1, 0, 2, 12}, ch \in {0, 1, 5} }

\* requests with headers and a Host
HeaderRequests ==
  { [r |-> Request(MethodGet, TestURL, host, h, 0, "nil"), s |-> NoStream] :
       host \in {<<>>, <<"e", "x", "a", "m", "p", "l", "e", ".", "c", "o", "m">>}, h \in HeaderSets }
  \cup
  { [r |-> Request(<<>>, TestURL, <<>>, h, 9, "orig"),
     s |-> Stream(<<"k", "e", "y", "=", "v", "a", "l", "u", "e">>, -1, 0)] : h \in HeaderSets }

Requests == BodyRequests \cup FailingRequests \cup HeaderRequests

\* bodies around the size of the bufio buffer
BigRequests ==
  { [r |-> Request(<<"P", "U", "T">>, TestURL, <<>>, EmptyHeader, cl, "orig"),
     s |-> Stream(LongBody(n), -1, 0)] :
       n \in {0, 3, defaultBufSize - 1, defaultBufSize, defaultBufSize + 1,
              defaultBufSize + 104},
       cl \in {-1, 0, 5000} }
  \cup
  { [r |-> Request(<<"P", "U", "T">>, TestURL, <<>>, EmptyHeader, -1, "orig"),
     s |-> Stream(LongBody(defaultBufSize + 104), e, 1000)] :
       e \in {-1, 0, 3, defaultBufSize} }

Timeouts == {-5, 0, 5}
BodySizes == {-1, 0, 3, 10}
BigBodySizes ==
  {3, defaultBufSize - 1, defaultBufSize, defaultBufSize + 1,
   2 * 1024 * 1024}
ReadSizes == {3, 512}
BigReadSizes == {512, defaultBufSize}

-----------------------------------------------------------------------------
(* The state machine: NewFromRequest(r, opts...), then the caller renders   *)
(* the command and a later handler reads r.Body                            *)

\* no calls running side by side
NoCalls == <<>>

\* no direct call of escape
NoEscape == [s |-> <<>>, called |-> FALSE, ret |-> <<>>]

InitWith(reqs) ==
  /\ pc = "opts"
  /\ nopts = 0
  /\ cfg = DefaultConfig
  /\ \E q \in reqs : req = q.r /\ stream = q.s
  /\ rd = NewReader
  /\ model = ZeroModel
  /\ tokens = <<>>
  /\ ret = [cmd |-> "none", err |-> "nil"]
  /\ rendered = [called |-> FALSE, s |-> <<>>]
  /\ consumed = <<>>
  /\ readerr = "nil"
  /\ esc = NoEscape
  /\ calls = NoCalls

Init == InitWith(Requests)
InitBig == InitWith(BigRequests)

\* one iteration of "for _, opt := range opts { opt(&c) }"
Apply(c) ==
  /\ pc = "opts"
  /\ nopts < MaxOpts
  /\ nopts' = nopts + 1
  /\ cfg' = c
  /\ UNCHANGED <<pc, req, stream, rd, model, tokens, ret, rendered, consumed,
                 readerr, esc, calls>>

OptFollowRedirects == Apply(WithFollowRedirects(cfg))
OptCompression == Apply(WithCompression(cfg))
OptInsecure == Apply(WithInsecure(cfg))
OptLongForm == Apply(WithLongForm(cfg))
OptSilent == Apply(WithSilent(cfg))
OptMultiLine == Apply(WithMultiLine(cfg))
OptWindowsMultiLine == Apply(WithWindowsMultiLine(cfg))
OptPowerShellMultiLine == Apply(WithPowerShellMultiLine(cfg))
OptDoubleQuotes == Apply(WithDoubleQuotes(cfg))
OptRequestTimeout == \E seconds \in Timeouts : Apply(WithRequestTimeout(cfg, seconds))
OptMaxBodySize == \E bytes \in BodySizes : Apply(WithMaxBodySize(cfg, bytes))
OptMaxBodySizeBig == \E bytes \in BigBodySizes : Apply(WithMaxBodySize(cfg, bytes))

\* checkAndBuild with the model built before the URL is looked at
buildThenCheck(r, s, c) ==
  CHOOSE res \in
    { IF r.URL.isNil
      THEN [bl EXCEPT !.status = "error", !.err = "request url is nil"]
      ELSE bl
      : bl \in {build(r, s, c)} } : TRUE

\* NewFromRequest after the options loop, up to construct: the URL check
\* and the model build (same result shape as build)
checkAndBuild(r, s, c) ==
  IF r.URL.isNil
  THEN [status |-> "error", err |-> "request url is nil", m |-> ZeroModel,
        body |-> r.Body, b |-> NewReader, s |-> s]
  ELSE build(r, s, c)

\* NewFromRequest after the options loop: the URL check, build, construct
NewFromRequest ==
  /\ pc = "opts"
  /\ \E bl \in {checkAndBuild(req, stream, cfg)} :
       /\ req' = [req EXCEPT !.Body = bl.body]
       /\ stream' = bl.s
       /\ rd' = bl.b
       /\ model' = bl.m
       /\ CASE bl.status = "error" ->
                 /\ pc' = "error"
                 /\ ret' = [cmd |-> "nil",
                            err |-> IF bl.err = "request url is nil"
                                    THEN bl.err
                                    ELSE "error reading request body"]
                 /\ tokens' = tokens
            [] bl.status = "panic" ->
                 /\ pc' = "panic"
                 /\ ret' = ret
                 /\ tokens' = tokens
            [] bl.status = "ok" ->
                 /\ pc' = "done"
                 /\ ret' = [cmd |-> "c", err |-> "nil"]
                 /\ \E order \in Orders(DOMAIN req.Header) :
                      tokens' = construct(cfg, bl.m, req, order)
  /\ UNCHANGED <<nopts, cfg, rendered, consumed, readerr, esc, calls>>

\* the caller renders the command it got, or one it has put together itself
\* as TestCommand_String does (pc = "string")
CallString ==
  /\ pc \in {"done", "string"}
  /\ ~rendered.called
  /\ rendered' = [called |-> TRUE, s |-> String(tokens, cfg)]
  /\ UNCHANGED <<pc, nopts, cfg, req, stream, rd, model, tokens, ret,
                 consumed, readerr, esc, calls>>

\* a later reader calls r.Body.Read(p) with len(p) = n, as io.ReadAll does
\* until Read reports an error or the end of the stream
ReadBodyOf(sizes) ==
  /\ pc \in {"done", "error"}
  /\ req.Body \in {"orig", "restored"}
  /\ readerr = "nil"
  /\ \E n \in sizes :
       IF req.Body = "restored"
       THEN LET got == BufRead(rd, stream, n)
            IN /\ consumed' = consumed \o got.bytes
               /\ readerr' = got.err
               /\ rd' = got.b
               /\ stream' = got.s
       ELSE LET got == StreamRead(stream, n)
            IN /\ consumed' = consumed \o got.bytes
               /\ readerr' = got.err
               /\ rd' = rd
               /\ stream' = got.s
  /\ UNCHANGED <<pc, nopts, cfg, req, model, tokens, ret, rendered, esc, calls>>

ReadBody == ReadBodyOf(ReadSizes)
ReadBodyBig == ReadBodyOf(BigReadSizes)

Next ==
  \/ OptFollowRedirects \/ OptCompression \/ OptInsecure \/ OptLongForm
  \/ OptSilent \/ OptMultiLine \/ OptWindowsMultiLine
  \/ OptPowerShellMultiLine \/ OptDoubleQuotes \/ OptRequestTimeout
  \/ OptMaxBodySize \/ NewFromRequest \/ CallString \/ ReadBody

Spec == Init /\ [][Next]_vars

\* the same machine on bodies around the size of the bufio buffer
NextBig ==
  \/ OptDoubleQuotes \/ OptMaxBodySizeBig \/ NewFromRequest \/ CallString
  \/ ReadBodyBig

SpecBig == InitBig /\ [][NextBig]_vars

\* the options loop on its own: one request without a body, every option
InitOptions ==
  InitWith({[r |-> Request(MethodGet, TestURL, <<>>, EmptyHeader, 0, "nil"),
             s |-> NoStream]})

NextOptions ==
  \/ OptFollowRedirects \/ OptCompression \/ OptInsecure \/ OptLongForm
  \/ OptSilent \/ OptMultiLine \/ OptWindowsMultiLine
  \/ OptPowerShellMultiLine \/ OptDoubleQuotes \/ OptRequestTimeout
  \/ OptMaxBodySize \/ NewFromRequest \/ CallString

SpecOptions == InitOptions /\ [][NextOptions]_vars

-----------------------------------------------------------------------------
(* NewFromRequest calls running side by side, each on a request of its own, *)
(* as the parallel subtests of Test_NewFromRequest_body do; the steps of    *)
(* the calls interleave in any order                                        *)

\* the options a caller can pass: a name, and the argument of the two
\* options that take one
OptionCalls ==
  {[name |-> n, arg |-> 0] :
     n \in {"FollowRedirects", "Compression", "Insecure", "LongForm",
            "Silent", "MultiLine", "WindowsMultiLine", "PowerShellMultiLine",
            "DoubleQuotes"}}
  \cup {[name |-> "RequestTimeout", arg |-> s] : s \in Timeouts}
  \cup {[name |-> "MaxBodySize", arg |-> b] : b \in BodySizes}

\* the configuration the option o leaves when applied to c
Applied(o, c) ==
  CASE o.name = "FollowRedirects" -> WithFollowRedirects(c)
    [] o.name = "Compression" -> WithCompression(c)
    [] o.name = "Insecure" -> WithInsecure(c)
    [] o.name = "LongForm" -> WithLongForm(c)
    [] o.name = "Silent" -> WithSilent(c)
    [] o.name = "MultiLine" -> WithMultiLine(c)
    [] o.name = "WindowsMultiLine" -> WithWindowsMultiLine(c)
    [] o.name = "PowerShellMultiLine" -> WithPowerShellMultiLine(c)
    [] o.name = "DoubleQuotes" -> WithDoubleQuotes(c)
    [] o.name = "RequestTimeout" -> WithRequestTimeout(c, o.arg)
    [] o.name = "MaxBodySize" -> WithMaxBodySize(c, o.arg)

\* most calls running side by side
MaxCalls == 2

\* what callers pass to NewFromRequest: a request with its body stream and
\* a list of options
CallInputs ==
  { [r |-> Request(MethodGet, TestURL, <<>>, EmptyHeader, 0, "nil"),
     s |-> NoStream,
     opts |-> <<[name |-> "Silent", arg |-> 0]>>],
    [r |-> Request(MethodPost, TestURL, <<>>, EmptyHeader, 9, "orig"),
     s |-> Stream(<<"k", "e", "y", "=", "v", "a", "l", "u", "e">>, -1, 0),
     opts |-> <<[name |-> "LongForm", arg |-> 0],
                [name |-> "RequestTimeout", arg |-> 5]>>],
    [r |-> Request(MethodGet, TestURL, <<>>, PlainHeader, 0, "nil"),
     s |-> NoStream,
     opts |-> <<[name |-> "DoubleQuotes", arg |-> 0],
                [name |-> "MultiLine", arg |-> 0]>>],
    [r |-> Request(MethodGet, NilURL, <<>>, EmptyHeader, 0, "nil"),
     s |-> NoStream,
     opts |-> <<[name |-> "Insecure", arg |-> 0]>>] }

\* a call at its start: "var c Command" with the default body limit, no
\* option applied yet
NewCall(in) ==
  [in |-> in, pc |-> "opts", next |-> 1, cfg |-> DefaultConfig, req |-> in.r,
   stream |-> in.s, rd |-> NewReader, model |-> ZeroModel, tokens |-> <<>>,
   ret |-> [cmd |-> "none", err |-> "nil"],
   rendered |-> [called |-> FALSE, s |-> <<>>]]

InitCalls ==
  /\ pc = "calls"
  /\ nopts = 0
  /\ cfg = DefaultConfig
  /\ req = Request(<<>>, NilURL, <<>>, EmptyHeader, 0, "nil")
  /\ stream = NoStream
  /\ rd = NewReader
  /\ model = ZeroModel
  /\ tokens = <<>>
  /\ ret = [cmd |-> "none", err |-> "nil"]
  /\ rendered = [called |-> FALSE, s |-> <<>>]
  /\ consumed = <<>>
  /\ readerr = "nil"
  /\ esc = NoEscape
  /\ \E ins \in [1..MaxCalls -> CallInputs] :
       calls = [i \in 1..MaxCalls |-> NewCall(ins[i])]

\* c.cfg written where c is a variable of the package, one for every call
SetCfgOfPackage(cs, i, c) == [j \in DOMAIN cs |-> [cs[j] EXCEPT !.cfg = c]]

\* opt(&c): the option writes the configuration of the Command c that is a
\* local variable of call i
SetCfg(cs, i, c) == [cs EXCEPT ![i].cfg = c]

\* one iteration of the options loop of a call
CallOption ==
  /\ pc = "calls"
  /\ \E i \in DOMAIN calls :
       /\ calls[i].pc = "opts"
       /\ calls[i].next <= Len(calls[i].in.opts)
       /\ calls' = [SetCfg(calls, i,
                           Applied(calls[i].in.opts[calls[i].next],
                                   calls[i].cfg))
                    EXCEPT ![i].next = @ + 1]
  /\ UNCHANGED <<pc, nopts, cfg, req, stream, rd, model, tokens, ret,
                 rendered, consumed, readerr, esc>>

\* a call after its options loop: the URL check and c.model.build
CallBuild ==
  /\ pc = "calls"
  /\ \E i \in DOMAIN calls :
       /\ calls[i].pc = "opts"
       /\ calls[i].next > Len(calls[i].in.opts)
       /\ \E bl \in {checkAndBuild(calls[i].req, calls[i].stream,
                                   calls[i].cfg)} :
            calls' =
              [calls EXCEPT
                 ![i].req.Body = bl.body,
                 ![i].stream = bl.s,
                 ![i].rd = bl.b,
                 ![i].model = bl.m,
                 ![i].pc = IF bl.status = "ok" THEN "built" ELSE bl.status,
                 ![i].ret =
                   IF bl.status = "error"
                   THEN [cmd |-> "nil",
                         err |-> IF bl.err = "request url is nil"
                                 THEN bl.err
                                 ELSE "error reading request body"]
                   ELSE @]
  /\ UNCHANGED <<pc, nopts, cfg, req, stream, rd, model, tokens, ret,
                 rendered, consumed, readerr, esc>>

\* c.construct() and "return &c, nil" of a call
CallConstruct ==
  /\ pc = "calls"
  /\ \E i \in DOMAIN calls :
       /\ calls[i].pc = "built"
       /\ \E order \in Orders(DOMAIN calls[i].req.Header) :
            calls' =
              [calls EXCEPT
                 ![i].tokens = construct(calls[i].cfg, calls[i].model,
                                         calls[i].req, order),
                 ![i].pc = "done",
                 ![i].ret = [cmd |-> "c", err |-> "nil"]]
  /\ UNCHANGED <<pc, nopts, cfg, req, stream, rd, model, tokens, ret,
                 rendered, consumed, readerr, esc>>

\* the caller of a call renders the command it got
CallRender ==
  /\ pc = "calls"
  /\ \E i \in DOMAIN calls :
       /\ calls[i].pc = "done"
       /\ ~calls[i].rendered.called
       /\ calls' =
            [calls EXCEPT
               ![i].rendered =
                 [called |-> TRUE,
                  s |-> String(calls[i].tokens, calls[i].cfg)]]
  /\ UNCHANGED <<pc, nopts, cfg, req, stream, rd, model, tokens, ret,
                 rendered, consumed, readerr, esc>>

NextCalls == CallOption \/ CallBuild \/ CallConstruct \/ CallRender

SpecCalls == InitCalls /\ [][NextCalls]_vars

-----------------------------------------------------------------------------
(* escape called on its own, as TestCommand_escape does: a Command with a   *)
(* quote style, and a string of the characters the shell treats specially  *)

EscapeChars == {"a", " ", "'", "\"", Backtick, "$", "\\"}

EscapeStrings == UNION {[1..n -> EscapeChars] : n \in 0..MaxStrLen}

InitEscape ==
  /\ pc = "escape"
  /\ nopts = 0
  /\ cfg \in {DefaultConfig, WithDoubleQuotes(DefaultConfig)}
  /\ req = Request(<<>>, NilURL, <<>>, EmptyHeader, 0, "nil")
  /\ stream = NoStream
  /\ rd = NewReader
  /\ model = ZeroModel
  /\ tokens = <<>>
  /\ ret = [cmd |-> "none", err |-> "nil"]
  /\ rendered = [called |-> FALSE, s |-> <<>>]
  /\ consumed = <<>>
  /\ readerr = "nil"
  /\ \E s \in EscapeStrings : esc = [s |-> s, called |-> FALSE, ret |-> <<>>]
  /\ calls = NoCalls

\* the call escape(c.cfg.style, s)
CallEscape ==
  /\ pc = "escape"
  /\ ~esc.called
  /\ esc' = [esc EXCEPT !.called = TRUE, !.ret = escape(cfg.style, esc.s)]
  /\ UNCHANGED <<pc, nopts, cfg, req, stream, rd, model, tokens, ret,
                 rendered, consumed, readerr, calls>>

NextEscape == CallEscape

SpecEscape == InitEscape /\ [][NextEscape]_vars

-----------------------------------------------------------------------------
(* String called on a Command put together field by field, as               *)
(* TestCommand_String does: a list of tokens, some of them empty, and one   *)
(* of the four output styles                                               *)

\* the most tokens of such a Command
MaxTokens == 3

StringTokens == {<<>>, <<"a">>, <<"-", "H", " ", "'", "b", " ", "c", "'">>}

TokenLists ==
  UNION {[1..n -> StringTokens] : n \in 0..MaxTokens}
  \cup {<< <<"c", "u", "r", "l", " ", "-", "X", " ", "'", "P", "O", "S", "T", "'", " ", "'", "h", "t", "t", "p", "s", ":", "/", "/", "l", "o", "c", "a", "l", "h", "o", "s", "t", "/", "t", "e", "s", "t", "'">>, <<"-", "H", " ", "'", "X", "-", "K", "e", "y", "-", "1", ":", " ", "1", "'">>,
            <<"-", "d", " ", "'", "k", "e", "y", "=", "v", "a", "l", "u", "e", "'">> >>}

InitString ==
  /\ pc = "string"
  /\ nopts = 0
  /\ cfg \in {DefaultConfig, WithMultiLine(DefaultConfig),
              WithWindowsMultiLine(DefaultConfig),
              WithPowerShellMultiLine(DefaultConfig)}
  /\ req = Request(<<>>, NilURL, <<>>, EmptyHeader, 0, "nil")
  /\ stream = NoStream
  /\ rd = NewReader
  /\ model = ZeroModel
  /\ tokens \in TokenLists
  /\ ret = [cmd |-> "none", err |-> "nil"]
  /\ rendered = [called |-> FALSE, s |-> <<>>]
  /\ consumed = <<>>
  /\ readerr = "nil"
  /\ esc = NoEscape
  /\ calls = NoCalls

NextString == CallString

SpecString == InitString /\ [][NextString]_vars

-----------------------------------------------------------------------------
(* The vocabulary of the properties *)

\* the request came with a body stream (r.Body neither nil nor http.NoBody)
BodyPresent == req.Body \notin {"nil", "NoBody"}

\* the body stream never reports a hard I/O error
Clean == stream.errAt < 0

\* the first min(L, N) bytes of the body, N the configured limit
FirstN ==
  SubSeq(stream.data, 1, Min(Len(stream.data), cfg.maxBodySize))

\* the main line of the command: the first token
MainLine == tokens[1]

\* where the word flag stands in line, a space on either side
FlagPositions(line, flag) ==
  {i \in 1..(Len(line) - Len(flag) - 1) :
     /\ line[i] = " "
     /\ line[i + Len(flag) + 1] = " "
     /\ SubSeq(line, i + 1, i + Len(flag)) = flag}

\* line holds flag with the word arg right after it
ArgAfter(line, flag, arg) ==
  \E i \in FlagPositions(line, flag) :
    /\ i + Len(flag) + 1 + Len(arg) <= Len(line)
    /\ SubSeq(line, i + Len(flag) + 2, i + Len(flag) + 1 + Len(arg)) = arg
    /\ \/ i + Len(flag) + 1 + Len(arg) = Len(line)
       \/ line[i + Len(flag) + 2 + Len(arg)] = " "

\* line holds flag, and what follows it starts with text
TextAfter(line, flag, text) ==
  \E i \in FlagPositions(line, flag) :
    /\ i + Len(flag) + 1 + Len(text) <= Len(line)
    /\ SubSeq(line, i + Len(flag) + 2, i + Len(flag) + 1 + Len(text)) = text

\* line ends with the words flag, arg and last
EndsWith(line, flag, arg, last) ==
  \E tail \in {<<" ">> \o flag \o <<" ">> \o arg \o <<" ">> \o last} :
    /\ Len(tail) <= Len(line)
    /\ SubSeq(line, Len(line) - Len(tail) + 1, Len(line)) = tail

DataFlag == <<"-", "-", "d", "a", "t", "a", "-", "r", "a", "w">>

MethodFlag == optionForm(cfg.style, <<"-", "X">>, <<"-", "-", "r", "e", "q", "u", "e", "s", "t">>)

-----------------------------------------------------------------------------
(* Properties of the body extractor, the URL check, the data flag and the   *)
(* method rule                                                             *)

\* C1: body restoration round trip. Once NewFromRequest has returned a
\* Command for a request with a body, r.Body is a reader whose delivered
\* bytes, followed by the bytes it still holds and the bytes left in the
\* stream, are the original body in the original order; a reader that reaches
\* the end of the stream has read exactly the original bytes, whatever the
\* body length and the limit.
C1_BodyRestored ==
  (pc = "done" /\ BodyPresent) =>
    /\ req.Body = "restored"
    /\ consumed \o rd.buf
         \o SubSeq(stream.data, stream.pos + 1, StreamEnd(stream))
       = SubSeq(stream.data, 1, StreamEnd(stream))
    /\ readerr \in {"nil", "EOF", "io"}
    /\ readerr = "EOF" => (Clean /\ consumed = stream.data)
    /\ readerr = "io" => ~Clean

\* C1 witness: a truncated body longer than the limit, read back whole
C1_Witness ==
  /\ pc = "done" /\ BodyPresent
  /\ model.bodyTruncated
  /\ Len(stream.data) > cfg.maxBodySize
  /\ readerr = "EOF"
  /\ consumed = stream.data

\* C2: body capture. For every limit N and body length L, build captures
\* exactly the first min(L, N) bytes and sets bodyTruncated iff L > N.
C2_CaptureExact ==
  (pc = "done" /\ BodyPresent /\ Clean) =>
    /\ model.body.bytes = FirstN
    /\ model.bodyTruncated <=> (Len(stream.data) > cfg.maxBodySize)

\* C3: total outcome. With a URL and a body stream that reports no hard I/O
\* error, NewFromRequest returns a Command and a nil error for every option
\* list: it neither panics nor fails.
C3_TotalOutcome ==
  (pc # "opts" /\ ~req.URL.isNil /\ Clean) =>
    /\ pc = "done"
    /\ ret = [cmd |-> "c", err |-> "nil"]
    /\ tokens # <<>>

\* C4: a hard I/O failure met while reading the body (the stream fails
\* before it has delivered the N + 1 bytes build asks for) makes
\* NewFromRequest return an error and no Command, for every limit N; the
\* end of the stream before N bytes is not an error.
C4_HardFailureIsError ==
  (pc # "opts" /\ ~req.URL.isNil /\ BodyPresent) =>
    /\ (~Clean /\ StreamEnd(stream) <= cfg.maxBodySize) =>
         (pc = "error" /\ ret.cmd = "nil" /\ ret.err # "nil")
    /\ Clean => pc # "error"

\* C5: a request without a URL. For every option list and body,
\* NewFromRequest returns the error and no Command; nothing is built, the
\* body stream is read by nobody but the later reader, and r.Body stays the
\* stream the caller put there.
C5_NilURL ==
  (req.URL.isNil /\ pc # "opts") =>
    /\ pc = "error"
    /\ ret = [cmd |-> "nil", err |-> "request url is nil"]
    /\ model = ZeroModel
    /\ tokens = <<>>
    /\ rd = NewReader
    /\ req.Body \in {"nil", "orig"}
    /\ stream.pos = Len(consumed)
    /\ consumed = SubSeq(stream.data, 1, stream.pos)

\* C5 witness: options were applied, the call failed on the nil URL, and the
\* body the caller supplied was afterwards read whole from the untouched
\* stream
C5_Witness ==
  /\ req.URL.isNil /\ pc = "error"
  /\ nopts > 0 /\ cfg # DefaultConfig
  /\ req.Body = "orig"
  /\ readerr = "EOF"
  /\ consumed = stream.data /\ consumed # <<>>

\* C6: the data flag is there iff a body stream is. In a returned Command,
\* hasData is true exactly when the request had a body stream; without one
\* the main line and the rendered text hold no --data-raw; with one, the
\* main line holds --data-raw followed by the escaped captured bytes (the
\* whole token when nothing was cut off, so an empty body gives an empty
\* pair of quotes).
C6_DataFlagIffBody ==
  pc = "done" =>
    /\ model.hasData <=> BodyPresent
    /\ BodyPresent =>
         /\ Cardinality(FlagPositions(MainLine, DataFlag)) = 1
         /\ \E e \in {escape(cfg.style, model.body.bytes)} :
              /\ TextAfter(MainLine, DataFlag, SubSeq(e, 1, Len(e) - 1))
              /\ ~model.bodyTruncated => ArgAfter(MainLine, DataFlag, e)
         /\ rendered.called => TextAfter(rendered.s, DataFlag, <<>>)
    /\ ~BodyPresent =>
         /\ model.body.isNil
         /\ FlagPositions(MainLine \o <<" ">>, DataFlag) = {}
         /\ FlagPositions(rendered.s \o <<" ">>, DataFlag) = {}

\* C6 witness: an empty body stream rendered as --data-raw ''
C6_Witness ==
  /\ pc = "done" /\ BodyPresent
  /\ stream.data = <<>>
  /\ rendered.called
  /\ ArgAfter(rendered.s, DataFlag, <<"'", "'">>)

\* C7: a body no longer than the limit. For every limit N and every body
\* of length L <= N, the data token is the escaped full body, without a
\* truncation marker, whatever ContentLength says.
C7_FullBodyNoMarker ==
  (pc = "done" /\ BodyPresent /\ Clean
     /\ Len(stream.data) <= cfg.maxBodySize) =>
    ArgAfter(MainLine, DataFlag, escape(cfg.style, stream.data))

\* C8: a body longer than the limit N with ContentLength C > 0. The data
\* token is the escape of the first N bytes followed by
\* "... (truncated body, total C bytes)".
C8_MarkerWithTotal ==
  (pc \in {"done", "panic"} /\ BodyPresent /\ Clean
     /\ Len(stream.data) > cfg.maxBodySize /\ req.ContentLength > 0) =>
    /\ pc = "done"
    /\ ArgAfter(MainLine, DataFlag,
                escape(cfg.style,
                       FirstN \o <<".", ".", ".", " ", "(", "t", "r", "u", "n", "c", "a", "t", "e", "d", " ", "b", "o", "d", "y", ",", " ", "t", "o", "t", "a", "l", " ">>
                         \o Itoa(req.ContentLength) \o <<" ", "b", "y", "t", "e", "s", ")">>))

\* C9: a body longer than the limit N with ContentLength C <= 0. The data
\* token is the escape of the first N bytes followed by
\* "... (truncated body)", without a byte count.
C9_MarkerWithoutTotal ==
  (pc \in {"done", "panic"} /\ BodyPresent /\ Clean
     /\ Len(stream.data) > cfg.maxBodySize /\ req.ContentLength <= 0) =>
    /\ pc = "done"
    /\ ArgAfter(MainLine, DataFlag,
                escape(cfg.style, FirstN \o <<".", ".", ".", " ", "(", "t", "r", "u", "n", "c", "a", "t", "e", "d", " ", "b", "o", "d", "y", ")">>))

\* C10: the method rule. The effective method is the declared one, or for
\* an empty declared method GET without a body stream and POST with one. The
\* main line ends with -X/--request, the escaped effective method and the
\* URL, except for GET without data and POST with data, where it holds no
\* method flag at all.
C10_MethodRule ==
  pc = "done" =>
    \E eff \in {IF req.Method = <<>>
                THEN IF BodyPresent THEN MethodPost ELSE MethodGet
                ELSE req.Method} :
      IF (eff = MethodGet /\ ~BodyPresent) \/ (eff = MethodPost /\ BodyPresent)
      THEN FlagPositions(MainLine, MethodFlag) = {}
      ELSE /\ Cardinality(FlagPositions(MainLine, MethodFlag)) = 1
           /\ EndsWith(MainLine, MethodFlag, escape(cfg.style, eff),
                       escape(cfg.style, req.URL.str))

\* C10 witness: GET with a body carries -X 'GET' after the data
C10_Witness ==
  /\ pc = "done" /\ BodyPresent
  /\ req.Method = MethodGet
  /\ ~cfg.style.useLongForm /\ ~cfg.style.useDoubleQuotes
  /\ EndsWith(MainLine, <<"-", "X">>, <<"'", "G", "E", "T", "'">>, <<"'", "h", "t", "t", "p", "s", ":", "/", "/", "l", "o", "c", "a", "l", "h", "o", "s", "t", "/", "t", "e", "s", "t", "'">>)

-----------------------------------------------------------------------------
(* Properties of the stage order, the escaper and the header stages *)

\* the flags of the main line in stage order, in the form the style asks for
StageFlags ==
  << optionForm(cfg.style, <<"-", "s">>, <<"-", "-", "s", "i", "l", "e", "n", "t">>),
     optionForm(cfg.style, <<"-", "m">>, <<"-", "-", "m", "a", "x", "-", "t", "i", "m", "e">>),
     optionForm(cfg.style, <<"-", "k">>, <<"-", "-", "i", "n", "s", "e", "c", "u", "r", "e">>),
     <<"-", "-", "c", "o", "m", "p", "r", "e", "s", "s", "e", "d">>,
     optionForm(cfg.style, <<"-", "L">>, <<"-", "-", "l", "o", "c", "a", "t", "i", "o", "n">>),
     optionForm(cfg.style, <<"-", "u">>, <<"-", "-", "u", "s", "e", "r">>),
     optionForm(cfg.style, <<"-", "b">>, <<"-", "-", "c", "o", "o", "k", "i", "e">>),
     DataFlag,
     MethodFlag >>

HeaderFlag == optionForm(cfg.style, <<"-", "H">>, <<"-", "-", "h", "e", "a", "d", "e", "r">>)

\* s starts with prefix
StartsWith(s, prefix) ==
  Len(prefix) <= Len(s) /\ SubSeq(s, 1, Len(prefix)) = prefix

\* the place where the word flag stands in line (0: nowhere; -1: more than
\* once)
FlagPosition(line, flag) ==
  CHOOSE p \in
    { IF n = 0 THEN 0
      ELSE IF n > 1 THEN -1
      ELSE CHOOSE i \in FlagPositions(line, flag) : TRUE
      : n \in {Cardinality(FlagPositions(line, flag))} } : TRUE

\* where each stage flag stands in the main line
StagePositions ==
  << FlagPosition(MainLine, StageFlags[1]), FlagPosition(MainLine, StageFlags[2]),
     FlagPosition(MainLine, StageFlags[3]), FlagPosition(MainLine, StageFlags[4]),
     FlagPosition(MainLine, StageFlags[5]), FlagPosition(MainLine, StageFlags[6]),
     FlagPosition(MainLine, StageFlags[7]), FlagPosition(MainLine, StageFlags[8]),
     FlagPosition(MainLine, StageFlags[9]) >>

\* C11: stage order. The main line starts with curl and ends with the
\* escaped URL; in between each stage flag stands at most once, the flags
\* that are there stand in the order silent, max-time (with the seconds),
\* insecure, compressed, location, user, cookie, data, request, and the
\* option flags are there exactly when the configuration asks for them,
\* whatever the order in which the options were applied; every further
\* token is a header line, and the rendered text starts with the main line.
C11_StageOrder ==
  pc = "done" =>
    \E pos \in {StagePositions} :
      /\ StartsWith(MainLine, <<"c", "u", "r", "l", " ">>)
      /\ \E u \in {<<" ">> \o escape(cfg.style, req.URL.str)} :
           /\ Len(u) <= Len(MainLine)
           /\ SubSeq(MainLine, Len(MainLine) - Len(u) + 1, Len(MainLine)) = u
      /\ \A i \in DOMAIN pos : pos[i] >= 0
      /\ \A i, j \in DOMAIN pos :
           (i < j /\ pos[i] > 0 /\ pos[j] > 0) => pos[i] < pos[j]
      /\ pos[1] > 0 <=> cfg.flags.silent
      /\ pos[2] > 0 <=> cfg.requestTimeout > 0
      /\ cfg.requestTimeout > 0 =>
           ArgAfter(MainLine, StageFlags[2], Itoa(cfg.requestTimeout))
      /\ pos[3] > 0 <=> cfg.flags.insecure
      /\ pos[4] > 0 <=> cfg.flags.compressed
      /\ pos[5] > 0 <=> cfg.flags.location
      /\ \A k \in 2..Len(tokens) :
           StartsWith(tokens[k], HeaderFlag \o <<" ">>)
      /\ rendered.called => StartsWith(rendered.s, MainLine)

\* C11 witness: two option flags before the user, cookie and data flags,
\* with header lines after the main line
C11_Witness ==
  /\ pc = "done" /\ rendered.called
  /\ cfg.flags.silent /\ cfg.flags.location
  /\ Len(tokens) > 1
  /\ \E pos \in {StagePositions} :
       /\ 0 < pos[1] /\ pos[1] < pos[5] /\ pos[5] < pos[6]
       /\ pos[6] < pos[7] /\ pos[7] < pos[8]


\* C12: deterministic output. The tokens of a returned Command, and so the
\* rendered text, are those construct yields for every order in which the
\* range loop of buildHeaders may visit the keys of the header map: equal
\* inputs give equal output.
C12_Deterministic ==
  pc = "done" =>
    \A order \in Orders(DOMAIN req.Header) :
      /\ construct(cfg, model, req, order) = tokens
      /\ String(construct(cfg, model, req, order), cfg) = String(tokens, cfg)


\* A POSIX shell reading the characters of w from place i on, in mode
\* "out" (unquoted), "sq" (inside single quotes) or "dq" (inside double
\* quotes), with acc the characters of the word read so far. ok says that w
\* is one word of literal characters: nothing splits it, nothing is
\* expanded or substituted, and no quote is left open.
RECURSIVE ShellRead(_, _, _, _)
ShellRead(w, i, mode, acc) ==
  IF i > Len(w)
  THEN [ok |-> mode = "out", s |-> acc]
  ELSE IF mode = "sq"
  THEN IF w[i] = "'" THEN ShellRead(w, i + 1, "out", acc)
       ELSE ShellRead(w, i + 1, "sq", Append(acc, w[i]))
  ELSE IF mode = "dq"
  THEN IF w[i] = "\"" THEN ShellRead(w, i + 1, "out", acc)
       ELSE IF w[i] = "\\"
       THEN IF i = Len(w) THEN [ok |-> FALSE, s |-> acc]
            ELSE IF w[i + 1] \in {"$", Backtick, "\"", "\\"}
            THEN ShellRead(w, i + 2, "dq", Append(acc, w[i + 1]))
            ELSE ShellRead(w, i + 1, "dq", Append(acc, w[i]))
       ELSE IF w[i] = Backtick THEN [ok |-> FALSE, s |-> acc]
       ELSE IF w[i] = "$" /\ i < Len(w) /\ w[i + 1] \in {"a", "$"}
       THEN [ok |-> FALSE, s |-> acc]
       ELSE ShellRead(w, i + 1, "dq", Append(acc, w[i]))
  ELSE IF w[i] = "'" THEN ShellRead(w, i + 1, "sq", acc)
  ELSE IF w[i] = "\"" THEN ShellRead(w, i + 1, "dq", acc)
  ELSE IF w[i] = "\\"
  THEN IF i = Len(w) THEN [ok |-> FALSE, s |-> acc]
       ELSE ShellRead(w, i + 2, "out", Append(acc, w[i + 1]))
  ELSE IF w[i] \in {" ", "$", Backtick} THEN [ok |-> FALSE, s |-> acc]
  ELSE ShellRead(w, i + 1, "out", Append(acc, w[i]))

\* the word a POSIX shell makes of w
ShellWord(w) == ShellRead(w, 1, "out", <<>>)

\* C13: round trip in single-quote mode. For every string s, a POSIX shell
\* reads escape(s) as one word whose characters are exactly those of s.
C13_SingleQuoteRoundTrip ==
  (pc = "escape" /\ esc.called /\ ~cfg.style.useDoubleQuotes) =>
    /\ esc.ret[1] = "'" /\ esc.ret[Len(esc.ret)] = "'"
    /\ ShellWord(esc.ret) = [ok |-> TRUE, s |-> esc.s]

\* C13 witness: a string of a single quote, a backslash and a single quote
C13_Witness ==
  /\ pc = "escape" /\ esc.called /\ ~cfg.style.useDoubleQuotes
  /\ esc.s = <<"'", "\\", "'">>
  /\ esc.ret = <<"'", "'", "\\", "'", "'", "\\", "'", "\\", "'", "'", "'">>
  /\ ShellWord(esc.ret).s = esc.s

\* C14: round trip in double-quote mode. For every string s, a POSIX shell
\* reads escape(s) as one word whose characters are exactly those of s: the
\* closing quote is the last character and ends the quoting.
C14_DoubleQuoteRoundTrip ==
  (pc = "escape" /\ esc.called /\ cfg.style.useDoubleQuotes) =>
    /\ esc.ret[1] = "\"" /\ esc.ret[Len(esc.ret)] = "\""
    /\ ShellWord(esc.ret) = [ok |-> TRUE, s |-> esc.s]

\* what the escaper makes of one character
EscapedChar(style, ch) ==
  IF style.useDoubleQuotes
  THEN IF ch \in {"\"", Backtick, "$"} THEN <<"\\", ch>> ELSE <<ch>>
  ELSE IF ch = "'" THEN <<"'", "\\", "'", "'">> ELSE <<ch>>

\* C15: the escaper, character by character. In single-quote mode every
\* single quote becomes the four characters '\'' and nothing else changes;
\* in double-quote mode each double quote, backtick and dollar sign gets one
\* backslash in front and nothing else changes; the result stands between
\* two quotes of the mode, so the empty string gives just the two quotes.
C15_EscaperDefinition ==
  (pc = "escape" /\ esc.called) =>
    \E q \in {IF cfg.style.useDoubleQuotes THEN "\"" ELSE "'"} :
      /\ esc.ret =
           <<q>> \o Flat([i \in 1..Len(esc.s) |->
                            EscapedChar(cfg.style, esc.s[i])], 1, Len(esc.s))
                 \o <<q>>
      /\ esc.s = <<>> => esc.ret = <<q, q>>

\* C15 witness: the three characters double-quote mode escapes
C15_Witness ==
  /\ pc = "escape" /\ esc.called /\ cfg.style.useDoubleQuotes
  /\ esc.s = <<"$", Backtick, "\"">>
  /\ esc.ret = <<"\"", "\\", "$", "\\", Backtick, "\\", "\"", "\"">>


\* the header line the command carries for the un-escaped text "Key: value"
HeaderLine(text) == HeaderFlag \o <<" ">> \o escape(cfg.style, text)

\* the header tokens whose text starts with key and a colon
LinesOf(key) ==
  {k \in 2..Len(tokens) :
     StartsWith(tokens[k],
                HeaderFlag \o <<" ", escape(cfg.style, <<>>)[1]>> \o key
                  \o <<":">>)}

\* the request stores the Basic credential of user:pass under the key
CarriesCredential(key) ==
  /\ key \in DOMAIN req.Header
  /\ req.Header[key] = <<<<"B", "a", "s", "i", "c", " ", "d", "X", "N", "l", "c", "j", "p", "w", "Y", "X", "N", "z">>>>

\* the command gives the credential user:pass with the user flag and has no
\* Authorization header line
CredentialAsUserFlag ==
  /\ ArgAfter(MainLine, StageFlags[6], escape(cfg.style, <<"u", "s", "e", "r", ":", "p", "a", "s", "s">>))
  /\ LinesOf(<<"A", "u", "t", "h", "o", "r", "i", "z", "a", "t", "i", "o", "n">>) = {}
  /\ rendered.called =>
       FlagPositions(rendered.s, HeaderFlag \o <<" ">>
                       \o escape(cfg.style, <<"A", "u", "t", "h", "o", "r", "i", "z", "a", "t", "i", "o", "n", ":", " ", "B", "a", "s", "i", "c", " ", "d", "X", "N", "l", "c", "j", "p", "w", "Y", "X", "N", "z">>))
         = {}

\* C16: Basic auth. A request carrying the credential in its Authorization
\* header gives a main line with the user flag followed by the escaped
\* user:pass, and no header line for Authorization.
C16_BasicAuth ==
  (pc = "done" /\ CarriesCredential(<<"A", "u", "t", "h", "o", "r", "i", "z", "a", "t", "i", "o", "n">>)) => CredentialAsUserFlag

\* C16 witness: the credential rendered with the user flag, next to other
\* header lines
C16_Witness ==
  /\ pc = "done" /\ rendered.called
  /\ CarriesCredential(<<"A", "u", "t", "h", "o", "r", "i", "z", "a", "t", "i", "o", "n">>)
  /\ Len(tokens) > 1
  /\ ~cfg.style.useLongForm /\ ~cfg.style.useDoubleQuotes
  /\ StartsWith(rendered.s, <<"c", "u", "r", "l", " ", "-", "u", " ", "'", "u", "s", "e", "r", ":", "p", "a", "s", "s", "'", " ">>)

\* C17: Basic auth whatever the spelling of the key. A request whose header
\* map stores the credential under Authorization, authorization or
\* AUTHORIZATION gives the user flag with user:pass and no Authorization
\* header line.
C17_BasicAuthAnyCase ==
  \A key \in {<<"A", "u", "t", "h", "o", "r", "i", "z", "a", "t", "i", "o", "n">>, <<"a", "u", "t", "h", "o", "r", "i", "z", "a", "t", "i", "o", "n">>, <<"A", "U", "T", "H", "O", "R", "I", "Z", "A", "T", "I", "O", "N">>} :
    (pc = "done" /\ CarriesCredential(key)) => CredentialAsUserFlag

\* C18: cookies. A request with a Cookie header gives a main line with the
\* cookie flag once, followed by the escaped name=value pairs of its
\* cookies joined by "; " in their order, and no Cookie header line; a
\* request without cookies gives no cookie flag.
C18_Cookies ==
  pc = "done" =>
    IF <<"C", "o", "o", "k", "i", "e">> \in DOMAIN req.Header
    THEN /\ FlagPosition(MainLine, StageFlags[7]) > 0
         /\ ArgAfter(MainLine, StageFlags[7],
                     escape(cfg.style,
                            Join(req.Header[<<"C", "o", "o", "k", "i", "e">>], <<";", " ">>)))
         /\ LinesOf(<<"C", "o", "o", "k", "i", "e">>) = {}
    ELSE FlagPosition(MainLine, StageFlags[7]) = 0

\* the spellings of the Host key the requests use
HostKeys == {<<"H", "o", "s", "t">>, <<"h", "o", "s", "t">>} \cap DOMAIN req.Header

\* the non-empty values the Host headers of the request give
HostHeaderValues ==
  {Join(req.Header[k], <<",", " ">>) : k \in HostKeys} \ {<<>>}

LexLeq(a, b) ==
  \/ StartsWith(b, a)
  \/ \E i \in 1..Min(Len(a), Len(b)) :
       /\ SubSeq(a, 1, i - 1) = SubSeq(b, 1, i - 1)
       /\ OrdOf[a[i]] < OrdOf[b[i]]

\* The text a quoted word w stands for, place by place. Between single
\* quotes every quote belongs to a group '\'' (quote, backslash, quote,
\* quote) that stands for one quote: the group's first quote gives the
\* quote, its backslash and its two other quotes give nothing. Between
\* double quotes a backslash before a double quote, a backtick or a dollar
\* sign gives nothing. Every other character stands for itself.
Unescape(style, w) ==
  LET quotesBefore(i) == Cardinality({j \in 2..(i - 1) : w[j] = "'"})
      piece(i) ==
        IF style.useDoubleQuotes
        THEN IF w[i] = "\\" /\ w[i + 1] \in {"\"", Backtick, "$"} /\ i + 1 < Len(w)
             THEN <<>>
             ELSE <<w[i]>>
        ELSE IF w[i] = "'"
             THEN IF quotesBefore(i) % 3 = 0 THEN <<"'">> ELSE <<>>
             ELSE IF w[i] = "\\" /\ w[i - 1] = "'" /\ w[i + 1] = "'"
                     /\ quotesBefore(i) % 3 = 1
             THEN <<>>
             ELSE <<w[i]>>
  IN Flat([i \in 2..(Len(w) - 1) |-> piece(i)], 2, Len(w) - 1)

\* the un-escaped "Key: value" text of header token k
HeaderText(k) ==
  Unescape(cfg.style, SubSeq(tokens[k], Len(HeaderFlag) + 2, Len(tokens[k])))

\* C20: header ordering. The header lines of a command stand in ascending
\* lexicographic order of their un-escaped "Key: value" text, a Host line
\* made from r.Host included.
C20_HeadersSorted ==
  pc = "done" =>
    \A k \in 2..(Len(tokens) - 1) : LexLeq(HeaderText(k), HeaderText(k + 1))

\* C20 witness: three header lines, the Host line made from r.Host between
\* the two others
C20_Witness ==
  /\ pc = "done"
  /\ req.Host = <<"e", "x", "a", "m", "p", "l", "e", ".", "c", "o", "m">>
  /\ Len(tokens) = 4
  /\ HeaderText(2) = <<"A", "c", "c", "e", "p", "t", ":", " ", "*", "/", "*">>
  /\ HeaderText(3) = <<"H", "o", "s", "t", ":", " ", "e", "x", "a", "m", "p", "l", "e", ".", "c", "o", "m">>
  /\ HeaderText(4) = <<"X", "-", "R", "e", "q", "u", "e", "s", "t", "-", "I", "d", ":", " ", "1", "2", "3", "4", "5", ",", " ", "i", "t", "'", "s">>

-----------------------------------------------------------------------------
(* The header stage on more requests: an Authorization header that is no    *)
(* Basic credential, a Cookie header that yields no cookie, a header of     *)
(* several values, and the request of the README's usage example            *)

BearerAuthHeader == <<"A", "u", "t", "h", "o", "r", "i", "z", "a", "t", "i", "o", "n">> :> <<<<"B", "e", "a", "r", "e", "r", " ", "t", "o", "k">>>>
\* "bad name" is no cookie name: readCookies skips the pair
BadCookieHeader == <<"C", "o", "o", "k", "i", "e">> :> <<<<"b", "a", "d", " ", "n", "a", "m", "e", "=", "1">>>>
MultiValueHeader == <<"a", "c", "c", "e", "p", "t", "-", "l", "a", "n", "g", "u", "a", "g", "e">> :> <<<<"f", "r">>, <<"e", "n">>>>

MoreHeaderSets ==
  { BearerAuthHeader, BadCookieHeader, MultiValueHeader,
    BearerAuthHeader @@ BadCookieHeader @@ MultiValueHeader }

\* http.NewRequest(http.MethodPost, "https://api.example.com/test",
\* strings.NewReader(body)) followed by SetBasicAuth, AddCookie and
\* Header.Set("X-Request-ID", "12345"): NewRequest sets Host from the URL and
\* ContentLength from the reader, Header.Set stores the canonical key
ReadmeURL == [isNil |-> FALSE, str |-> <<"h", "t", "t", "p", "s", ":", "/", "/", "a", "p", "i", ".", "e", "x", "a", "m", "p", "l", "e", ".", "c", "o", "m", "/", "t", "e", "s", "t">>]
ReadmeBody == <<"{", "\"", "h", "e", "l", "l", "o", "\"", ":", " ", "\"", "w", "o", "r", "l", "d", "\"", "}">>
ReadmeHeader ==
  (<<"A", "u", "t", "h", "o", "r", "i", "z", "a", "t", "i", "o", "n">> :> <<<<"B", "a", "s", "i", "c", " ", "d", "X", "N", "l", "c", "j", "p", "w", "Y", "X", "N", "z">>>>)
  @@ (<<"C", "o", "o", "k", "i", "e">> :> <<<<"s", "e", "s", "s", "i", "o", "n", "=", "a", "b", "c", "1", "2", "3", "4", "5">>>>)
  @@ (<<"X", "-", "R", "e", "q", "u", "e", "s", "t", "-", "I", "d">> :> <<<<"1", "2", "3", "4", "5">>>>)
ReadmeRequest ==
  [r |-> Request(MethodPost, ReadmeURL, <<"a", "p", "i", ".", "e", "x", "a", "m", "p", "l", "e", ".", "c", "o", "m">>, ReadmeHeader,
                 Len(ReadmeBody), "orig"),
   s |-> Stream(ReadmeBody, -1, 0)]

MoreHeaderRequests ==
  { [r |-> Request(MethodGet, TestURL, host, h, 0, "nil"), s |-> NoStream] :
       host \in {<<>>, <<"e", "x", "a", "m", "p", "l", "e", ".", "c", "o", "m">>}, h \in MoreHeaderSets }
  \cup
  { [r |-> Request(<<"P", "U", "T">>, TestURL, <<>>,
                   AuthHeader @@ CookieHeader @@ PlainHeader, 0, "NoBody"),
     s |-> NoStream] }
  \cup {ReadmeRequest}

InitHeaders == InitWith(HeaderRequests \cup MoreHeaderRequests)

SpecHeaders == InitHeaders /\ [][Next]_vars

-----------------------------------------------------------------------------
(* Properties of the header lines, the rendering and the options *)

\* the canonical spelling of the header keys the requests store in another
\* spelling
CanonicalSpelling ==
  (<<"x", "-", "r", "e", "q", "u", "e", "s", "t", "-", "i", "d">> :> <<"X", "-", "R", "e", "q", "u", "e", "s", "t", "-", "I", "d">>)
  @@ (<<"a", "c", "c", "e", "p", "t">> :> <<"A", "c", "c", "e", "p", "t">>)
  @@ (<<"a", "c", "c", "e", "p", "t", "-", "l", "a", "n", "g", "u", "a", "g", "e">> :> <<"A", "c", "c", "e", "p", "t", "-", "L", "a", "n", "g", "u", "a", "g", "e">>)
  @@ (<<"a", "u", "t", "h", "o", "r", "i", "z", "a", "t", "i", "o", "n">> :> <<"A", "u", "t", "h", "o", "r", "i", "z", "a", "t", "i", "o", "n">>)
  @@ (<<"A", "U", "T", "H", "O", "R", "I", "Z", "A", "T", "I", "O", "N">> :> <<"A", "u", "t", "h", "o", "r", "i", "z", "a", "t", "i", "o", "n">>)
  @@ (<<"h", "o", "s", "t">> :> <<"H", "o", "s", "t">>)

Canonical(k) ==
  IF k \in DOMAIN CanonicalSpelling THEN CanonicalSpelling[k] ELSE k

\* the entries of r.Header that neither the user flag, nor the cookie flag,
\* nor the Host line stands for
GenericKeys ==
  {k \in DOMAIN req.Header :
     /\ Canonical(k) # <<"H", "o", "s", "t">>
     /\ ~(Canonical(k) = <<"A", "u", "t", "h", "o", "r", "i", "z", "a", "t", "i", "o", "n">> /\ model.hasAuth)
     /\ ~(Canonical(k) = <<"C", "o", "o", "k", "i", "e">> /\ model.hasCookies)}

\* "<canonical key>: <values joined by ', ' in their order>"
GenericText(k) ==
  Canonical(k) \o <<":", " ">> \o Join(req.Header[k], <<",", " ">>)

Newlines(s) == Cardinality({i \in 1..Len(s) : s[i] = "\n"})

\* C21: header format. Every generic header of the request has exactly one
\* token of its own after the main line, made of the header flag, a space
\* and the escape of "<canonical key>: <values joined by ', ' in their
\* stored order>"; every token after the main line is such a line or the
\* Host line; rendered in multi-line mode, every header stands on a line of
\* its own.
C21_HeaderFormat ==
  pc = "done" =>
    /\ \A k \in GenericKeys :
         Cardinality({i \in 2..Len(tokens) :
                        tokens[i] = HeaderLine(GenericText(k))}) = 1
    /\ \A i \in 2..Len(tokens) :
         \/ i \in LinesOf(<<"H", "o", "s", "t">>)
         \/ \E k \in GenericKeys : tokens[i] = HeaderLine(GenericText(k))
    /\ (rendered.called /\ cfg.style.useMultiLine) =>
         Newlines(rendered.s) = Len(tokens) - 1

\* C21 witness: keys stored in lower case and a header of two values that
\* are not in alphabetical order, rendered on three lines after the main one
C21_Witness ==
  /\ pc = "done" /\ rendered.called
  /\ cfg.style.useMultiLine /\ ~cfg.style.useLongForm
  /\ ~cfg.style.useDoubleQuotes
  /\ <<"a", "c", "c", "e", "p", "t", "-", "l", "a", "n", "g", "u", "a", "g", "e">> \in DOMAIN req.Header
  /\ Len(tokens) = 4
  /\ tokens[2] = <<"-", "H", " ", "'", "A", "c", "c", "e", "p", "t", "-", "L", "a", "n", "g", "u", "a", "g", "e", ":", " ", "f", "r", ",", " ", "e", "n", "'">>
  /\ Newlines(rendered.s) = 3

\* the separator String puts between two lines
Separator ==
  IF cfg.style.useMultiLine
  THEN <<" ">> \o cfg.style.lineContinuation \o <<"\n">>
  ELSE <<" ">>

\* the lines of the command from the first to the last one that is not empty
StripEmpty(toks) ==
  LET full == {i \in 1..Len(toks) : toks[i] # <<>>}
  IN IF full = {} THEN <<>>
     ELSE SubSeq(toks, CHOOSE i \in full : \A j \in full : i <= j,
                 CHOOSE i \in full : \A j \in full : j <= i)

OtherTimeoutFlag == optionForm(cfg.style, <<"-", "-", "m", "a", "x", "-", "t", "i", "m", "e">>, <<"-", "m">>)

\* C23: timeout. The configured timeout is never negative: a negative value
\* given to WithRequestTimeout leaves 0. The main line of a command has the
\* max-time flag exactly when the timeout is above 0, once, as -m in short
\* form and --max-time in long form, followed by the seconds without quotes;
\* a negative number never stands in the main line.
C23_Timeout ==
  /\ cfg.requestTimeout \in {0} \cup {s \in Timeouts : s > 0}
  /\ pc = "done" =>
       /\ FlagPosition(MainLine, StageFlags[2]) > 0 <=> cfg.requestTimeout > 0
       /\ cfg.requestTimeout > 0 =>
            ArgAfter(MainLine, StageFlags[2], Itoa(cfg.requestTimeout))
       /\ FlagPosition(MainLine, OtherTimeoutFlag) = 0
       /\ \A s \in Timeouts : s < 0 => FlagPositions(MainLine, Itoa(s)) = {}

\* C23 witness: a timeout of 5 seconds rendered in long form
C23_Witness ==
  /\ pc = "done" /\ nopts = 2
  /\ cfg.requestTimeout = 5 /\ cfg.style.useLongForm
  /\ StartsWith(MainLine, <<"c", "u", "r", "l", " ", "-", "-", "m", "a", "x", "-", "t", "i", "m", "e", " ", "5", " ">>)

\* C24: configuration invariant. After any sequence of options, none
\* included, the timeout is at least 0, the body limit is at least 1 (1024
\* before any option, and right after a WithMaxBodySize of a non-positive
\* value), and a multi-line style has the backslash, the caret or the
\* backtick for its continuation character. Applying options never makes an
\* error: NewFromRequest fails only for a nil URL or a body that cannot be
\* read.
C24_ConfigInvariant ==
  /\ [](/\ cfg.requestTimeout >= 0
        /\ cfg.maxBodySize >= 1
        /\ nopts = 0 => cfg.maxBodySize = defaultMaxBodySize
        /\ cfg.style.useMultiLine =>
             cfg.style.lineContinuation \in {<<"\\">>, <<"^">>, <<Backtick>>}
        /\ pc = "opts" => ret.err = "nil"
        /\ ret.err # "nil" => (req.URL.isNil \/ stream.errAt >= 0))
  /\ [][\A bytes \in BodySizes :
          (bytes <= 0 /\ Apply(WithMaxBodySize(cfg, bytes)))
            => cfg'.maxBodySize = defaultMaxBodySize]_vars

\* C24 witness: two options applied, a multi-line style and a body limit
C24_Witness ==
  /\ pc = "opts" /\ nopts = 2
  /\ cfg.style.useMultiLine /\ cfg.style.lineContinuation = <<Backtick>>
  /\ cfg.maxBodySize = 3

\* the configuration field an option writes (the three multi-line options
\* write the same one: the multi-line style with its continuation character)
FieldOf(o) ==
  IF o.name \in {"MultiLine", "WindowsMultiLine", "PowerShellMultiLine"}
  THEN "MultiLine"
  ELSE o.name

\* the field of the configuration c an option of that field writes
FieldValue(f, c) ==
  CASE f = "FollowRedirects" -> c.flags.location
    [] f = "Compression" -> c.flags.compressed
    [] f = "Insecure" -> c.flags.insecure
    [] f = "LongForm" -> c.style.useLongForm
    [] f = "Silent" -> c.flags.silent
    [] f = "MultiLine" -> <<c.style.useMultiLine, c.style.lineContinuation>>
    [] f = "DoubleQuotes" -> c.style.useDoubleQuotes
    [] f = "RequestTimeout" -> c.requestTimeout
    [] f = "MaxBodySize" -> c.maxBodySize

\* the value the option o sets its field to
ValueSet(o) ==
  CASE o.name = "MultiLine" -> <<TRUE, <<"\\">>>>
    [] o.name = "WindowsMultiLine" -> <<TRUE, <<"^">>>>
    [] o.name = "PowerShellMultiLine" -> <<TRUE, <<Backtick>>>>
    [] o.name = "RequestTimeout" -> IF o.arg < 0 THEN 0 ELSE o.arg
    [] o.name = "MaxBodySize" -> IF o.arg <= 0 THEN 1024 ELSE o.arg
    [] OTHER -> TRUE

\* C25: last write wins. Every step of the options loop applies one option
\* to the configuration the options before it left. Whatever that
\* configuration is, the option sets its field to its own value and leaves
\* every other field alone, so that of two options writing the same field
\* the later one decides (5 then -5 seconds give 0; WithMultiLine then
\* WithWindowsMultiLine give the caret; 10 then 0 bytes give 1024), and two
\* options writing different fields give the same configuration in either
\* order.
C25_LastWriteWins ==
  /\ [](pc = "opts" =>
          \A o1 \in OptionCalls :
            /\ FieldValue(FieldOf(o1), Applied(o1, cfg)) = ValueSet(o1)
            /\ \A f \in {FieldOf(o) : o \in OptionCalls} \ {FieldOf(o1)} :
                 FieldValue(f, Applied(o1, cfg)) = FieldValue(f, cfg)
            /\ \A o2 \in OptionCalls :
                 IF FieldOf(o1) = FieldOf(o2)
                 THEN Applied(o2, Applied(o1, cfg)) = Applied(o2, cfg)
                 ELSE Applied(o2, Applied(o1, cfg))
                        = Applied(o1, Applied(o2, cfg)))
  /\ [][nopts' = nopts + 1 =>
          \E o \in OptionCalls : cfg' = Applied(o, cfg)]_vars

\* C25 witness: two options applied, the caret style in effect and nothing
\* else changed, as after WithMultiLine then WithWindowsMultiLine
C25_Witness ==
  /\ pc = "opts" /\ nopts = 2
  /\ cfg.style.useMultiLine /\ cfg.style.lineContinuation = <<"^">>
  /\ cfg.flags = DefaultConfig.flags
  /\ cfg.requestTimeout = 0 /\ cfg.maxBodySize = 1024

\* the flags that have a short and a long spelling
FlagPairs ==
  { <<<<"-", "s">>, <<"-", "-", "s", "i", "l", "e", "n", "t">>>>, <<<<"-", "m">>, <<"-", "-", "m", "a", "x", "-", "t", "i", "m", "e">>>>,
    <<<<"-", "k">>, <<"-", "-", "i", "n", "s", "e", "c", "u", "r", "e">>>>, <<<<"-", "L">>, <<"-", "-", "l", "o", "c", "a", "t", "i", "o", "n">>>>,
    <<<<"-", "u">>, <<"-", "-", "u", "s", "e", "r">>>>, <<<<"-", "b">>, <<"-", "-", "c", "o", "o", "k", "i", "e">>>>,
    <<<<"-", "X">>, <<"-", "-", "r", "e", "q", "u", "e", "s", "t">>>>, <<<<"-", "H">>, <<"-", "-", "h", "e", "a", "d", "e", "r">>>> }

\* line holds the flag as a word: at its start or after a space, and before
\* a space
HasWord(line, flag) ==
  StartsWith(line, flag \o <<" ">>) \/ FlagPositions(line, flag) # {}

\* the places of line where a word starting with two hyphens starts, each
\* with the place right after the word
LongWords(line) ==
  { <<i, CHOOSE e \in (i + 1)..(Len(line) + 1) :
            /\ e = Len(line) + 1 \/ line[e] = " "
            /\ \A j \in (i + 1)..(e - 1) : line[j] # " ">> :
      i \in {j \in 1..(Len(line) - 1) :
               /\ line[j] = "-" /\ line[j + 1] = "-"
               /\ j = 1 \/ line[j - 1] = " "} }

\* line with every long spelling of a flag pair that stands as a word
\* replaced by the short spelling
Shorten(line) ==
  CHOOSE res \in
    { Flat([i \in 1..Len(line) |->
              IF \E w \in ws : w[1] = i
              THEN CHOOSE short \in {p[1] : p \in
                     {q \in FlagPairs :
                        \E w \in ws : w[1] = i /\ q[2] = SubSeq(line, w[1], w[2] - 1)}} : TRUE
              ELSE IF \E w \in ws : w[1] < i /\ i < w[2]
              THEN <<>>
              ELSE <<line[i]>>], 1, Len(line))
      : ws \in { {w \in LongWords(line) :
                    \E q \in FlagPairs : q[2] = SubSeq(line, w[1], w[2] - 1)} } }
    : TRUE

\* C26: option form. With long form on, every flag of a pair stands in its
\* long spelling and never in the short one; with long form off it is the
\* other way round. The flags are there under the same conditions in both
\* forms, --compressed and --data-raw are spelled the same in both, and the
\* tokens in long form, their long spellings replaced by the short ones,
\* are the tokens the same request gives with long form off.
C26_OptionForm ==
  pc = "done" =>
    /\ \A p \in FlagPairs :
         \A k \in 1..Len(tokens) :
           ~HasWord(tokens[k], IF cfg.style.useLongForm THEN p[1] ELSE p[2])
    /\ \E pos \in {StagePositions} :
         /\ pos[1] > 0 <=> cfg.flags.silent
         /\ pos[2] > 0 <=> cfg.requestTimeout > 0
         /\ pos[3] > 0 <=> cfg.flags.insecure
         /\ pos[5] > 0 <=> cfg.flags.location
         /\ pos[6] > 0 <=> model.hasAuth
         /\ pos[7] > 0 <=> model.hasCookies
    /\ FlagPosition(MainLine, <<"-", "-", "c", "o", "m", "p", "r", "e", "s", "s", "e", "d">>) > 0 <=> cfg.flags.compressed
    /\ FlagPosition(MainLine, <<"-", "-", "d", "a", "t", "a", "-", "r", "a", "w">>) > 0 <=> model.hasData
    /\ \A k \in 2..Len(tokens) :
         StartsWith(tokens[k],
                    (IF cfg.style.useLongForm THEN <<"-", "-", "h", "e", "a", "d", "e", "r">> ELSE <<"-", "H">>)
                      \o <<" ">>)
    /\ cfg.style.useLongForm =>
         \E order \in Orders(DOMAIN req.Header) :
           [k \in 1..Len(tokens) |-> Shorten(tokens[k])]
             = construct([cfg EXCEPT !.style.useLongForm = FALSE], model,
                         req, order)

\* C26 witness: a command in long form with the silent, user, cookie,
\* request and header flags
C26_Witness ==
  /\ pc = "done" /\ cfg.style.useLongForm /\ cfg.flags.silent
  /\ ~cfg.style.useDoubleQuotes
  /\ StartsWith(MainLine, <<"c", "u", "r", "l", " ", "-", "-", "s", "i", "l", "e", "n", "t", " ", "-", "-", "u", "s", "e", "r", " ", "'", "u", "s", "e", "r", ":", "p", "a", "s", "s", "'", " ", "-", "-", "c", "o", "o", "k", "i", "e", " ", "'", "a", "=", "1", ";", " ", "b", "=", "2", "'", " ", "-", "-", "r", "e", "q", "u", "e", "s", "t", " ", "'", "P", "U", "T", "'", " ">>)
  /\ Len(tokens) = 2
  /\ StartsWith(tokens[2], <<"-", "-", "h", "e", "a", "d", "e", "r", " ", "'", "X", "-", "R", "e", "q", "u", "e", "s", "t", "-", "I", "d", ":", " ">>)

\* C27: the usage example of the README. For the request made by
\* http.NewRequest with the POST method, the URL
\* https://api.example.com/test and the body {"hello": "world"}, given Basic
\* auth user:pass, the cookie session=abc12345 and the header X-Request-ID:
\* 12345, and no options, String() is the one line the README prints.
C27_ReadmeExample ==
  ( /\ pc = "done" /\ rendered.called /\ nopts = 0
    /\ req.URL = ReadmeURL /\ req.Header = ReadmeHeader
    /\ req.Host = <<"a", "p", "i", ".", "e", "x", "a", "m", "p", "l", "e", ".", "c", "o", "m">> ) =>
    rendered.s = <<"c", "u", "r", "l", " ", "-", "u", " ", "'", "u", "s", "e", "r", ":", "p", "a", "s", "s", "'", " ", "-", "b", " ", "'", "s", "e", "s", "s", "i", "o", "n", "=", "a", "b", "c", "1", "2", "3", "4", "5", "'", " ", "-", "-", "d", "a", "t", "a", "-", "r", "a", "w", " ", "'", "{", "\"", "h", "e", "l", "l", "o", "\"", ":", " ", "\"", "w", "o", "r", "l", "d", "\"", "}", "'", " ", "'", "h", "t", "t", "p", "s", ":", "/", "/", "a", "p", "i", ".", "e", "x", "a", "m", "p", "l", "e", ".", "c", "o", "m", "/", "t", "e", "s", "t", "'", " ", "-", "H", " ", "'", "X", "-", "R", "e", "q", "u", "e", "s", "t", "-", "I", "d", ":", " ", "1", "2", "3", "4", "5", "'">>


-----------------------------------------------------------------------------
(* Calls running side by side *)

\* "for _, opt := range opts { opt(&c) }" run without interruption: the
\* configuration the first n options of opts leave
RECURSIVE ApplyAll(_, _)
ApplyAll(opts, n) ==
  IF n = 0 THEN DefaultConfig ELSE Applied(opts[n], ApplyAll(opts, n - 1))

\* NewFromRequest(in.r, in.opts...) run alone, and String() of the Command it
\* returns, with the header keys visited in the given order
CallAlone(in, order) ==
  LET c == ApplyAll(in.opts, Len(in.opts))
  IN CHOOSE res \in
       { [cfg |-> c, model |-> bl.m, status |-> bl.status, err |-> bl.err,
          body |-> bl.body,
          tokens |-> IF bl.status = "ok"
                     THEN construct(c, bl.m, in.r, order) ELSE <<>>] :
           bl \in {checkAndBuild(in.r, in.s, c)} } : TRUE

\* what the callers of CallInputs get when each runs alone
SilentGet == <<"c", "u", "r", "l", " ", "-", "s", " ", "'", "h", "t", "t", "p", "s", ":", "/", "/", "l", "o", "c", "a", "l", "h", "o", "s", "t", "/", "t", "e", "s", "t", "'">>
LongFormPost == <<"c", "u", "r", "l", " ", "-", "-", "m", "a", "x", "-", "t", "i", "m", "e", " ", "5", " ", "-", "-", "d", "a", "t", "a", "-", "r", "a", "w", " ", "'", "k", "e", "y", "=", "v", "a", "l", "u", "e", "'", " ", "'", "h", "t", "t", "p", "s", ":", "/", "/", "l", "o", "c", "a", "l", "h", "o", "s", "t", "/", "t", "e", "s", "t", "'">>

\* C28: under any interleaving of calls on distinct requests, every step
\* touches one call only, and each call's configuration, model, tokens,
\* error and rendered string are the ones the call produces when run alone
C28_NonInterference ==
  /\ [](pc = "calls" =>
         \A i \in DOMAIN calls :
           \E order \in Orders(DOMAIN calls[i].in.r.Header) :
             \E alone \in {CallAlone(calls[i].in, order)} :
               /\ calls[i].pc = "error" =>
                    /\ alone.status = "error"
                    /\ calls[i].ret = [cmd |-> "nil", err |-> alone.err]
                    /\ calls[i].req.Body = alone.body
               /\ calls[i].pc \in {"built", "done"} =>
                    /\ alone.status = "ok"
                    /\ calls[i].cfg = alone.cfg
                    /\ calls[i].model = alone.model
                    /\ calls[i].req.Body = alone.body
               /\ calls[i].pc = "done" =>
                    /\ calls[i].tokens = alone.tokens
                    /\ calls[i].ret = [cmd |-> "c", err |-> "nil"]
               /\ calls[i].rendered.called =>
                    /\ calls[i].rendered.s = String(alone.tokens, alone.cfg)
                    /\ Len(calls[i].in.opts) = 1 =>
                         calls[i].rendered.s = SilentGet
                    /\ calls[i].in.r.Method = MethodPost =>
                         calls[i].rendered.s = LongFormPost)
  /\ [][pc = "calls" =>
          \E i \in DOMAIN calls :
            \A j \in DOMAIN calls \ {i} : calls'[j] = calls[j]]_vars

\* two calls with different options, interleaved, have both finished and
\* been rendered
C28_Witness ==
  /\ pc = "calls"
  /\ calls[1].rendered.called
  /\ calls[2].rendered.called
  /\ calls[1].in.r.Method = MethodPost
  /\ Len(calls[2].in.opts) = 1
  /\ calls[1].cfg # calls[2].cfg


-----------------------------------------------------------------------------
(* What NewFromRequest does to the request *)

\* C29: no step changes r.Method, r.URL, r.Header, r.Host or
\* r.ContentLength; a nil or http.NoBody body stays what it is, and so does
\* the body when the call returns an error; r.Body is replaced exactly by
\* the step of NewFromRequest that succeeds on a present body
C29_RequestFrame ==
  [][/\ req'.Method = req.Method
     /\ req'.URL = req.URL
     /\ req'.Header = req.Header
     /\ req'.Host = req.Host
     /\ req'.ContentLength = req.ContentLength
     /\ req.Body \in {"nil", "NoBody"} => req'.Body = req.Body
     /\ pc' \in {"error", "panic"} => req'.Body = req.Body
     /\ req'.Body # req.Body <=>
          /\ pc = "opts"
          /\ pc' = "done"
          /\ req.Body = "orig"
          /\ req'.Body = "restored"]_vars

\* NewFromRequest has succeeded on a request with a body and headers, and
\* r.Body is the restored reader
C29_Witness ==
  /\ pc = "done"
  /\ req.Body = "restored"
  /\ model.hasData
  /\ DOMAIN req.Header # {}


-----------------------------------------------------------------------------
(* Every header of the request is accounted for *)

\* the entry k of r.Header is stood for by the user flag
ByUserFlag(k) ==
  /\ Canonical(k) = <<"A", "u", "t", "h", "o", "r", "i", "z", "a", "t", "i", "o", "n">>
  /\ model.hasAuth
  /\ FlagPosition(MainLine, StageFlags[6]) > 0

\* the entry k of r.Header is stood for by the cookie flag
ByCookieFlag(k) ==
  /\ Canonical(k) = <<"C", "o", "o", "k", "i", "e">>
  /\ model.hasCookies
  /\ FlagPosition(MainLine, StageFlags[7]) > 0

\* the entry k of r.Header takes part in the Host resolution
ByHostResolution(k) == Canonical(k) = <<"H", "o", "s", "t">>

\* the number of tokens that are the header line of the entry k
OwnLines(k) ==
  Cardinality({i \in 2..Len(tokens) : tokens[i] = HeaderLine(GenericText(k))})

\* a host value exists: r.Host, or a Host header of a non-empty value
HostValueExists == req.Host # <<>> \/ HostHeaderValues # {}

====
